---- MODULE Spec2Model ----
(***************************************************************************)
(* A model of xmidt-org/touchstone's touchbundle package: the struct-tag   *)
(* driven population of a bundle of prometheus metrics through a           *)
(* touchstone.Factory.                                                     *)
(*                                                                         *)
(* Strings that the code parses are sequences of one-character strings,    *)
(* so that Split, TrimSpace, Replace and the numeric parsers are computed  *)
(* the way the code computes them.  An error value is the flattened list   *)
(* of its leaf errors (multierr.Errors); the nil error is the empty list.  *)
(***************************************************************************)
EXTENDS Integers, Sequences, FiniteSets, TLC

------------------------------------------------------------------------------
(* Bounds of the model.                                                     *)

\* most struct tags one field of a single-field bundle carries
MaxTags == 2
\* most fields of a multi-field bundle
MaxFields == 2
\* longest labelNames tag value that is enumerated exhaustively
MaxLabelTagLen == 2
\* most Populate calls issued against one factory
MaxPopulates == 2
\* longest identifier that is enumerated exhaustively
MaxIdentLen == 5
\* longest name tag that is enumerated exhaustively
MaxNameTagLen == 3
\* longest field name that is enumerated exhaustively with every name tag
MaxFieldNameLen == 2
\* direct calls of the factory's constructors against one registry
MaxNews == 2
\* concurrent requests through one instrumenter
MaxRequests == 3

------------------------------------------------------------------------------
(* Strings as character sequences.                                          *)

Sp == " "
Comma == ","
Colon == ":"
Star == "*"

RECURSIVE SeqsUpTo(_, _)
\* every sequence over alphabet A of length at most n
SeqsUpTo(A, n) ==
    IF n = 0 THEN {<<>>}
    ELSE LET shorter == SeqsUpTo(A, n - 1)
         IN  shorter \cup {Append(s, c) : s \in {t \in shorter : Len(t) = n - 1}, c \in A}

RECURSIVE SplitFrom(_, _, _, _)
SplitFrom(s, sep, i, cur) ==
    IF i > Len(s) THEN <<cur>>
    ELSE IF s[i] = sep THEN <<cur>> \o SplitFrom(s, sep, i + 1, <<>>)
    ELSE SplitFrom(s, sep, i + 1, Append(cur, s[i]))

\* strings.Split(s, sep) for a one-character separator: always at least one part
Split(s, sep) == SplitFrom(s, sep, 1, <<>>)

RECURSIVE TrimLeft(_)
TrimLeft(s) == IF s # <<>> /\ Head(s) = Sp THEN TrimLeft(Tail(s)) ELSE s

RECURSIVE TrimRight(_)
TrimRight(s) ==
    IF s # <<>> /\ s[Len(s)] = Sp THEN TrimRight(SubSeq(s, 1, Len(s) - 1)) ELSE s

\* strings.TrimSpace
TrimSpace(s) == TrimRight(TrimLeft(s))

RECURSIVE IndexFrom(_, _, _)
IndexFrom(s, c, i) ==
    IF i > Len(s) THEN 0 ELSE IF s[i] = c THEN i ELSE IndexFrom(s, c, i + 1)

\* strings.Replace(s, "*", with, 1): only the first occurrence is replaced
ReplaceFirst(s, c, with) ==
    LET i == IndexFrom(s, c, 1)
    IN  IF i = 0 THEN s
        ELSE SubSeq(s, 1, i - 1) \o with \o SubSeq(s, i + 1, Len(s))

Digits == {"0", "1", "2", "3", "4", "5", "6", "7", "8", "9"}

DigitValue(c) ==
    CASE c = "0" -> 0 [] c = "1" -> 1 [] c = "2" -> 2 [] c = "3" -> 3
      [] c = "4" -> 4 [] c = "5" -> 5 [] c = "6" -> 6 [] c = "7" -> 7
      [] c = "8" -> 8 [] c = "9" -> 9

AllIn(s, A) == \A i \in 1..Len(s) : s[i] \in A

Count(s, c) == Cardinality({i \in 1..Len(s) : s[i] = c})

\* strconv.ParseFloat(s, 64) succeeds: decimal digits with at most one point
\* and at least one digit (the model's alphabet has no sign or exponent)
ParseFloatOk(s) ==
    /\ AllIn(s, Digits \cup {"."})
    /\ Count(s, ".") <= 1
    /\ \E i \in 1..Len(s) : s[i] \in Digits

\* the float64 a failed ParseFloat returns
FloatZero == <<"0">>

\* the parsed value (kept as its literal) and whether parsing succeeded
ParseFloat(s) ==
    IF ParseFloatOk(s) THEN [v |-> s, ok |-> TRUE] ELSE [v |-> FloatZero, ok |-> FALSE]

RECURSIVE StripZeros(_)
\* a decimal literal without its leading zeros ("0" for zero)
StripZeros(s) == IF Len(s) > 1 /\ Head(s) = "0" THEN StripZeros(Tail(s)) ELSE s

RECURSIVE DecimalLess(_, _, _)
\* a < b for two decimal literals of the same length, compared from digit i
DecimalLess(a, b, i) ==
    IF i > Len(a) THEN FALSE
    ELSE IF a[i] = b[i] THEN DecimalLess(a, b, i + 1)
    ELSE DigitValue(a[i]) < DigitValue(b[i])

\* a > b for two decimal literals without leading zeros
DecimalGreater(a, b) == Len(a) > Len(b) \/ (Len(a) = Len(b) /\ DecimalLess(b, a, 1))

\* the largest uint32, 2^32 - 1, as a decimal literal
MaxUint32 == <<"4", "2", "9", "4", "9", "6", "7", "2", "9", "5">>

\* the uint32 zero
UintZero == <<"0">>

\* strconv.ParseUint(s, 10, 32): digits only, no trimming, value must fit 32 bits;
\* on a range error the maximum value is returned with the error.  The value
\* is kept as its decimal literal.
ParseUint32(s) ==
    IF s = <<>> \/ ~AllIn(s, Digits) THEN [v |-> UintZero, ok |-> FALSE]
    ELSE IF DecimalGreater(StripZeros(s), MaxUint32) THEN [v |-> MaxUint32, ok |-> FALSE]
    ELSE [v |-> StripZeros(s), ok |-> TRUE]

\* the unit strings of time.ParseDuration that the model's alphabet can spell
DurationUnits == {<<"s">>, <<"m">>, <<"h">>, <<"m", "s">>}

RECURSIVE RunEnd(_, _, _)
\* the index after the longest run of characters of s, from i, that are
\* digits (inDigits) or non-digits (~inDigits)
RunEnd(s, i, inDigits) ==
    IF i <= Len(s) /\ ((s[i] \in Digits) = inDigits) THEN RunEnd(s, i + 1, inDigits) ELSE i

RECURSIVE DurationGroups(_, _)
\* s[i..] is one or more groups of a number followed by a unit
DurationGroups(s, i) ==
    LET j == RunEnd(s, i, TRUE)
        k == RunEnd(s, j, FALSE)
    IN  /\ j > i
        /\ SubSeq(s, j, k - 1) \in DurationUnits
        /\ (k > Len(s) \/ DurationGroups(s, k))

\* time.ParseDuration succeeds: "0", or one or more number-unit groups
ParseDurationOk(s) == s = <<"0">> \/ (s # <<>> /\ DurationGroups(s, 1))

------------------------------------------------------------------------------
(* Snake case and metric names.                                             *)

snakeCaseSeparator == "_"

LowerLetters ==
    <<"a", "b", "c", "d", "e", "f", "g", "h", "i", "j", "k", "l", "m",
      "n", "o", "p", "q", "r", "s", "t", "u", "v", "w", "x", "y", "z">>

UpperLetters ==
    <<"A", "B", "C", "D", "E", "F", "G", "H", "I", "J", "K", "L", "M",
      "N", "O", "P", "Q", "R", "S", "T", "U", "V", "W", "X", "Y", "Z">>

\* unicode.IsUpper (the model's alphabet has no titlecase letters)
IsUpper(r) == \E i \in 1..26 : UpperLetters[i] = r

\* unicode.IsLower
IsLower(r) == \E i \in 1..26 : LowerLetters[i] = r

\* unicode.ToLower
ToLower(r) ==
    IF IsUpper(r) THEN LowerLetters[CHOOSE i \in 1..26 : UpperLetters[i] = r] ELSE r

\* a new snakifier
NewSnakifier == [output |-> <<>>, parsingUpper |-> FALSE, token |-> <<>>]

\* snakifier.flush writing the separator before every token
flushAlways(s) ==
    IF Len(s.token) > 0
    THEN [s EXCEPT !.output = Append(s.output, snakeCaseSeparator) \o s.token,
                   !.token = <<>>]
    ELSE s

\* snakifier.flush
flush(s) ==
    IF Len(s.token) > 0
    THEN [s EXCEPT !.output =
                       (IF Len(s.output) > 0 THEN Append(s.output, snakeCaseSeparator)
                        ELSE s.output) \o s.token,
                   !.token = <<>>]
    ELSE s

\* snakifier.push keeping the last capital of a run in the run's token
pushWholeRun(s, r) ==
    IF r = snakeCaseSeparator THEN flush(s)
    ELSE IF Len(s.token) = 0
    THEN [s EXCEPT !.parsingUpper = IsUpper(r), !.token = <<ToLower(r)>>]
    ELSE IF IsLower(r)
    THEN [s EXCEPT !.parsingUpper = FALSE, !.token = Append(s.token, r)]
    ELSE IF IsUpper(r)
    THEN IF ~s.parsingUpper
         THEN LET fl == flush(s)
              IN  [fl EXCEPT !.parsingUpper = TRUE, !.token = Append(fl.token, ToLower(r))]
         ELSE [s EXCEPT !.token = Append(s.token, ToLower(r))]
    ELSE [s EXCEPT !.token = Append(s.token, r)]

\* snakifier.push
push(s, r) ==
    IF r = snakeCaseSeparator THEN flush(s)
    ELSE IF Len(s.token) = 0
    THEN [s EXCEPT !.parsingUpper = IsUpper(r), !.token = <<ToLower(r)>>]
    ELSE IF IsLower(r)
    THEN IF s.parsingUpper
         THEN IF Len(s.token) > 1
              THEN LET last == s.token[Len(s.token)]
                       cut == [s EXCEPT !.parsingUpper = FALSE,
                                        !.token = SubSeq(s.token, 1, Len(s.token) - 1)]
                       fl == flush(cut)
                   IN  [fl EXCEPT !.token = <<last, r>>]
              ELSE [s EXCEPT !.parsingUpper = FALSE, !.token = Append(s.token, r)]
         ELSE [s EXCEPT !.token = Append(s.token, r)]
    ELSE IF IsUpper(r)
    THEN IF ~s.parsingUpper
         THEN LET fl == flush(s)
              IN  [fl EXCEPT !.parsingUpper = TRUE, !.token = Append(fl.token, ToLower(r))]
         ELSE [s EXCEPT !.token = Append(s.token, ToLower(r))]
    ELSE [s EXCEPT !.token = Append(s.token, r)]

RECURSIVE pushAll(_, _, _)
pushAll(s, identifier, i) ==
    IF i > Len(identifier) THEN s ELSE pushAll(push(s, identifier[i]), identifier, i + 1)

\* toSnakeCase returning before the last token is flushed
toSnakeCaseUnflushed(identifier) ==
    IF Len(identifier) = 0 THEN identifier
    ELSE pushAll(NewSnakifier, identifier, 1).output

\* toSnakeCase converts a Go identifier into snake case
toSnakeCase(identifier) ==
    IF Len(identifier) = 0 THEN identifier
    ELSE flush(pushAll(NewSnakifier, identifier, 1)).output

------------------------------------------------------------------------------
(* Struct fields and their tags.                                            *)

TagTouchstone == "touchstone"
TagNamespace == "namespace"
TagSubsystem == "subsystem"
TagName == "name"
TagHelp == "help"
TagBuckets == "buckets"
TagObjectives == "objectives"
TagMaxAge == "maxAge"
TagAgeBuckets == "ageBuckets"
TagBufCap == "bufCap"
TagLabelNames == "labelNames"
TagType == "type"

TypeHistogram == <<"h", "i", "s", "t", "o", "g", "r", "a", "m">>
TypeSummary == <<"s", "u", "m", "m", "a", "r", "y">>

histogramTagNames == <<TagBuckets>>
summaryTagNames == <<TagObjectives, TagMaxAge, TagAgeBuckets, TagBufCap>>
observerTagNames == histogramTagNames \o summaryTagNames

counterType == "prometheus.Counter"
counterVecType == "*prometheus.CounterVec"
gaugeType == "prometheus.Gauge"
gaugeVecType == "*prometheus.GaugeVec"
histogramType == "prometheus.Histogram"
histogramVecType == "*prometheus.HistogramVec"
summaryType == "prometheus.Summary"
summaryVecType == "*prometheus.SummaryVec"
observerType == "prometheus.Observer"
observerVecType == "prometheus.ObserverVec"
\* a field type that is no metric handle
intType == "int"

\* reflect.StructTag.Lookup: is the key present on the field
TagLookup(mf, key) == key \in DOMAIN mf.Tag

\* reflect.StructTag.Get: the value, or the empty string when absent
TagGet(mf, key) == IF key \in DOMAIN mf.Tag THEN mf.Tag[key] ELSE <<>>

\* skip without the test for embedded fields
skipExportedOnly(mf) ==
    \/ Len(mf.PkgPath) > 0
    \/ TagGet(mf, TagTouchstone) = <<"-">>

\* metricField.skip
skip(mf) ==
    \/ Len(mf.PkgPath) > 0
    \/ mf.Anonymous
    \/ TagGet(mf, TagTouchstone) = <<"-">>

RECURSIVE ReplaceEvery(_, _, _)
\* strings.ReplaceAll(s, c, with)
ReplaceEvery(s, c, with) ==
    IF s = <<>> THEN <<>>
    ELSE (IF Head(s) = c THEN with ELSE <<Head(s)>>) \o ReplaceEvery(Tail(s), c, with)

\* MetricName replacing every "*" of the name tag
MetricNameEvery(f) ==
    LET snakeCase == toSnakeCase(f.Name)
        name == ReplaceEvery(TagGet(f, TagName), Star, snakeCase)
    IN  IF Len(name) = 0 THEN snakeCase ELSE name

\* MetricName: the name tag with its first "*" replaced by the snake-cased
\* field name, or the snake-cased field name when that is empty
MetricName(f) ==
    LET snakeCase == toSnakeCase(f.Name)
        name == ReplaceFirst(TagGet(f, TagName), Star, snakeCase)
    IN  IF Len(name) = 0 THEN snakeCase ELSE name

\* metricField.name
name(mf) == MetricName(mf)

\* metricField.help
help(mf) == TagGet(mf, TagHelp)

\* metricField.namespace
namespace(mf) == TagGet(mf, TagNamespace)

\* metricField.subsystem
subsystem(mf) == TagGet(mf, TagSubsystem)

------------------------------------------------------------------------------
(* Errors.  Every leaf error is a record of one shape.                      *)

\* the nil error
NoError == <<>>

\* multierr.Append: the flattened concatenation of both error lists
MultiAppend(left, right) == left \o right

\* a FieldError without a cause: the field, a message and the tag or text
\* the message is about
FieldErrorOf(mf, message, tagName, text) ==
    [kind |-> "FieldError", field |-> mf.Name, ftype |-> mf.Type,
     msg |-> message, tag |-> tagName, text |-> text, cause |-> "none"]

\* metricField.fieldErrorf
fieldErrorf(mf, message, text) == FieldErrorOf(mf, message, "", text)

\* an error returned by strconv or time.ParseDuration for the given text
ParseError(func, text) ==
    [kind |-> "ParseError", field |-> <<>>, ftype |-> "",
     msg |-> func, tag |-> "", text |-> text, cause |-> "none"]

\* metricField.wrapError: a FieldError whose Cause is the parse error and
\* whose Message is the cause's message
wrapError(mf, cause) ==
    [kind |-> "FieldError", field |-> mf.Name, ftype |-> mf.Type,
     msg |-> cause.msg, tag |-> "", text |-> cause.text, cause |-> cause.kind]

\* metricField.appendError: cause is a list holding no or one parse error
appendError(mf, appendErr, cause) ==
    IF cause = NoError THEN appendErr
    ELSE MultiAppend(appendErr, <<wrapError(mf, cause[1])>>)

\* touchstone.ErrNoMetricName
ErrNoMetricName ==
    [kind |-> "ErrNoMetricName", field |-> <<>>, ftype |-> "",
     msg |-> "A metric Name is required", tag |-> "", text |-> <<>>, cause |-> "none"]

------------------------------------------------------------------------------
(* Tag parsers.                                                             *)

RECURSIVE bucketsFrom(_, _)
\* the loop of metricField.buckets over the split tag value
bucketsFrom(tagValues, i) ==
    IF i > Len(tagValues) THEN [buckets |-> <<>>, err |-> NoError]
    ELSE LET text == TrimSpace(tagValues[i])
             pf == ParseFloat(text)
             rest == bucketsFrom(tagValues, i + 1)
         IN  [buckets |-> <<pf.v>> \o rest.buckets,
              err |-> MultiAppend(IF pf.ok THEN NoError
                                  ELSE <<ParseError("ParseFloat", text)>>,
                                  rest.err)]

\* metricField.buckets: the parse errors are appended as they are
buckets(mf) ==
    LET tagValue == TagGet(mf, TagBuckets)
    IN  IF Len(tagValue) = 0 THEN [buckets |-> <<>>, err |-> NoError]
        ELSE bucketsFrom(Split(tagValue, Comma), 1)

\* objectives[key] = value on a map kept as a set of pairs
MapPut(m, key, value) == {p \in m : p[1] # key} \cup {<<key, value>>}

RECURSIVE objectivesFrom(_, _, _, _, _)
\* the loop of metricField.objectives over the split tag value
objectivesFrom(mf, tagValues, i, objs, err) ==
    IF i > Len(tagValues) THEN [objectives |-> objs, err |-> err]
    ELSE LET pair == Split(tagValues[i], Colon)
         IN  IF Len(pair) # 2
             THEN objectivesFrom(mf, tagValues, i + 1, objs,
                      MultiAppend(err, <<fieldErrorf(mf, "Invalid objective entry '%s'", tagValues[i])>>))
             ELSE LET keyText == TrimSpace(pair[1])
                      valText == TrimSpace(pair[2])
                      key == ParseFloat(keyText)
                      value == ParseFloat(valText)
                      err1 == appendError(mf, err,
                                  IF key.ok THEN NoError ELSE <<ParseError("ParseFloat", keyText)>>)
                      err2 == appendError(mf, err1,
                                  IF value.ok THEN NoError ELSE <<ParseError("ParseFloat", valText)>>)
                  IN  objectivesFrom(mf, tagValues, i + 1,
                          IF value.ok THEN MapPut(objs, key.v, value.v) ELSE objs,
                          err2)

\* metricField.objectives
objectives(mf, appendErr) ==
    LET tagValue == TagGet(mf, TagObjectives)
    IN  IF Len(tagValue) = 0 THEN [objectives |-> {}, err |-> appendErr]
        ELSE objectivesFrom(mf, Split(tagValue, Comma), 1, {}, appendErr)

\* metricField.parseUint32
parseUint32(mf, tagName) ==
    LET tagValue == TagGet(mf, tagName)
        pu == ParseUint32(tagValue)
    IN  IF Len(tagValue) > 0
        THEN [v |-> pu.v,
              err |-> IF pu.ok THEN NoError ELSE <<ParseError("ParseUint", tagValue)>>]
        ELSE [v |-> UintZero, err |-> NoError]

\* metricField.ageBuckets
ageBuckets(mf, appendErr) ==
    LET p == parseUint32(mf, TagAgeBuckets)
    IN  [v |-> p.v, err |-> appendError(mf, appendErr, p.err)]

\* metricField.bufCap
bufCap(mf, appendErr) ==
    LET p == parseUint32(mf, TagBufCap)
    IN  [v |-> p.v, err |-> appendError(mf, appendErr, p.err)]

\* the zero time.Duration
DurationZero == <<"0">>

\* metricField.parseDuration: the duration is kept as its literal
parseDuration(mf, tagName) ==
    LET tagValue == TagGet(mf, tagName)
    IN  IF Len(tagValue) > 0
        THEN IF ParseDurationOk(tagValue) THEN [v |-> tagValue, err |-> NoError]
             ELSE [v |-> DurationZero, err |-> <<ParseError("ParseDuration", tagValue)>>]
        ELSE [v |-> DurationZero, err |-> NoError]

\* metricField.maxAge
maxAge(mf, appendErr) ==
    LET p == parseDuration(mf, TagMaxAge)
    IN  [v |-> p.v, err |-> appendError(mf, appendErr, p.err)]

RECURSIVE checkInvalidTagNamesFrom(_, _, _, _, _)
checkInvalidTagNamesFrom(mf, err, format, tagNames, i) ==
    IF i > Len(tagNames) THEN err
    ELSE checkInvalidTagNamesFrom(mf,
             IF TagLookup(mf, tagNames[i])
             THEN MultiAppend(err, <<FieldErrorOf(mf, format, tagNames[i], <<>>)>>)
             ELSE err,
             format, tagNames, i + 1)

\* checkInvalidTagNames deciding by the value of a tag: a tag that is
\* present and empty passes
checkInvalidTagNamesByValue(mf, appendErr, format, tagNames) ==
    LET offending == SelectSeq(tagNames, LAMBDA t : TagGet(mf, t) # <<>>)
    IN  MultiAppend(appendErr,
            [k \in 1..Len(offending) |-> FieldErrorOf(mf, format, offending[k], <<>>)])

\* metricField.checkInvalidTagNames: one error per tag name that is present
checkInvalidTagNames(mf, appendErr, format, tagNames) ==
    checkInvalidTagNamesFrom(mf, appendErr, format, tagNames, 1)

\* the formats of the field errors; the tag or text they are about is kept
\* beside the format
MsgNotAllowed == "tag '%s' is not allowed"
MsgAmbiguous == "tag '%s' is ambiguous"
MsgRequired == "tag '%s' is required and cannot be empty for vector metrics"
MsgInvalidType == "'%s' is not a valid observer metric type"

\* metricField.checkTagNotAllowed
checkTagNotAllowed(mf, appendErr, tagNames) ==
    checkInvalidTagNames(mf, appendErr, MsgNotAllowed, tagNames)

\* metricField.checkTagAmbiguous
checkTagAmbiguous(mf, appendErr, tagNames) ==
    checkInvalidTagNames(mf, appendErr, MsgAmbiguous, tagNames)

\* metricField.hasAnyTagNames
hasAnyTagNames(mf, tagNames) == \E i \in 1..Len(tagNames) : TagLookup(mf, tagNames[i])

\* labelNames without the trimming of the parts
labelNamesUntrimmed(mf, appendErr) ==
    LET values == Split(TagGet(mf, TagLabelNames), Comma)
    IN  [values |-> values,
         err |-> IF Len(values) = 1 /\ Len(values[1]) = 0
                 THEN MultiAppend(appendErr, <<FieldErrorOf(mf, MsgRequired, TagLabelNames, <<>>)>>)
                 ELSE appendErr]

\* labelNames rejecting every tag that lists a single label name
labelNamesSingle(mf, appendErr) ==
    LET parts == Split(TagGet(mf, TagLabelNames), Comma)
        values == [i \in 1..Len(parts) |-> TrimSpace(parts[i])]
    IN  [values |-> values,
         err |-> IF Len(values) = 1
                 THEN MultiAppend(appendErr, <<FieldErrorOf(mf, MsgRequired, TagLabelNames, <<>>)>>)
                 ELSE appendErr]

\* metricField.labelNames: the trimmed parts of the tag; an error when the
\* only part is empty
labelNames(mf, appendErr) ==
    LET v == TagGet(mf, TagLabelNames)
        parts == Split(v, Comma)
        values == [i \in 1..Len(parts) |-> TrimSpace(parts[i])]
    IN  [values |-> values,
         err |-> IF Len(values) = 1 /\ Len(values[1]) = 0
                 THEN MultiAppend(appendErr, <<FieldErrorOf(mf, MsgRequired, TagLabelNames, <<>>)>>)
                 ELSE appendErr]

------------------------------------------------------------------------------
(* Option construction.  One record shape stands for the four prometheus    *)
(* xxxOpts structs; kind tells which one it is, and NilOpts is the nil      *)
(* interface.                                                               *)

BaseOpts(mf, kind) ==
    [kind |-> kind, Name |-> name(mf), Help |-> help(mf),
     Namespace |-> namespace(mf), Subsystem |-> subsystem(mf),
     Buckets |-> <<>>, Objectives |-> {}, MaxAge |-> DurationZero,
     AgeBuckets |-> UintZero, BufCap |-> UintZero]

NilOpts ==
    [kind |-> "nil", Name |-> <<>>, Help |-> <<>>, Namespace |-> <<>>, Subsystem |-> <<>>,
     Buckets |-> <<>>, Objectives |-> {}, MaxAge |-> DurationZero,
     AgeBuckets |-> UintZero, BufCap |-> UintZero]

\* newCounterOpts without the check of the observer tags
newCounterOptsUnchecked(mf) == [opts |-> BaseOpts(mf, "counter"), err |-> NoError]

\* metricField.newCounterOpts
newCounterOpts(mf) ==
    [opts |-> BaseOpts(mf, "counter"),
     err |-> checkTagNotAllowed(mf, NoError, observerTagNames)]

\* metricField.newGaugeOpts
newGaugeOpts(mf) ==
    [opts |-> BaseOpts(mf, "gauge"),
     err |-> checkTagNotAllowed(mf, NoError, observerTagNames)]

\* metricField.newHistogramOpts
newHistogramOpts(mf) ==
    LET b == buckets(mf)
    IN  [opts |-> [BaseOpts(mf, "histogram") EXCEPT !.Buckets = b.buckets],
         err |-> MultiAppend(NoError, b.err)]

\* metricField.newSummaryOpts
newSummaryOpts(mf) ==
    LET o == objectives(mf, NoError)
        m == maxAge(mf, o.err)
        a == ageBuckets(mf, m.err)
        c == bufCap(mf, a.err)
    IN  [opts |-> [BaseOpts(mf, "summary") EXCEPT !.Objectives = o.objectives,
                                                  !.MaxAge = m.v,
                                                  !.AgeBuckets = a.v,
                                                  !.BufCap = c.v],
         err |-> c.err]

\* observerOpts without the check of the other kind's tags
observerOptsUnchecked(mf, r, ambiguousTagNames) == [opts |-> r.opts, err |-> r.err]

\* the end of newObserverOpts: the options r that were built for the chosen
\* kind, checked against the tags that only the other kind allows
observerOpts(mf, r, ambiguousTagNames) ==
    [opts |-> r.opts, err |-> checkTagAmbiguous(mf, r.err, ambiguousTagNames)]

\* newObserverOpts without the detection of summary tags: a field without a
\* type tag is always a histogram
newObserverOptsHistogramFirst(mf) ==
    IF TagGet(mf, TagType) = TypeHistogram
    THEN observerOpts(mf, newHistogramOpts(mf), summaryTagNames)
    ELSE IF TagGet(mf, TagType) = TypeSummary
    THEN observerOpts(mf, newSummaryOpts(mf), histogramTagNames)
    ELSE IF Len(TagGet(mf, TagType)) > 0
    THEN [opts |-> NilOpts,
          err |-> <<FieldErrorOf(mf, MsgInvalidType, "", TagGet(mf, TagType))>>]
    ELSE observerOpts(mf, newHistogramOpts(mf), summaryTagNames)

\* newObserverOpts treating an unrecognized type tag like an absent one
newObserverOptsLenient(mf) ==
    IF TagGet(mf, TagType) = TypeHistogram
    THEN observerOpts(mf, newHistogramOpts(mf), summaryTagNames)
    ELSE IF TagGet(mf, TagType) = TypeSummary
    THEN observerOpts(mf, newSummaryOpts(mf), histogramTagNames)
    ELSE IF hasAnyTagNames(mf, summaryTagNames)
    THEN observerOpts(mf, newSummaryOpts(mf), histogramTagNames)
    ELSE observerOpts(mf, newHistogramOpts(mf), summaryTagNames)

\* metricField.newObserverOpts
newObserverOpts(mf) ==
    IF TagGet(mf, TagType) = TypeHistogram
    THEN observerOpts(mf, newHistogramOpts(mf), summaryTagNames)
    ELSE IF TagGet(mf, TagType) = TypeSummary
    THEN observerOpts(mf, newSummaryOpts(mf), histogramTagNames)
    ELSE IF Len(TagGet(mf, TagType)) > 0
    THEN [opts |-> NilOpts,
          err |-> <<FieldErrorOf(mf, MsgInvalidType, "", TagGet(mf, TagType))>>]
    ELSE IF hasAnyTagNames(mf, summaryTagNames)
    THEN observerOpts(mf, newSummaryOpts(mf), histogramTagNames)
    ELSE observerOpts(mf, newHistogramOpts(mf), summaryTagNames)

\* the result of newOpts for a scalar field type: no label names
ScalarOpts(mf, r, notAllowed) ==
    [opts |-> r.opts, labelNames |-> <<>>,
     err |-> checkTagNotAllowed(mf, r.err, notAllowed)]

\* the result of newOpts for a vector field type: label names are parsed last
VectorOpts(mf, r, notAllowed) ==
    LET l == labelNames(mf, checkTagNotAllowed(mf, r.err, notAllowed))
    IN  [opts |-> r.opts, labelNames |-> l.values, err |-> l.err]

\* metricField.newOpts: a field of any other type yields nil options, no
\* label names and no error
newOpts(mf) ==
    CASE mf.Type = counterType ->
            ScalarOpts(mf, newCounterOpts(mf), <<TagType, TagLabelNames>>)
      [] mf.Type = counterVecType ->
            VectorOpts(mf, newCounterOpts(mf), <<TagType>>)
      [] mf.Type = gaugeType ->
            ScalarOpts(mf, newGaugeOpts(mf), <<TagType, TagLabelNames>>)
      [] mf.Type = gaugeVecType ->
            VectorOpts(mf, newGaugeOpts(mf), <<TagType>>)
      [] mf.Type = histogramType ->
            ScalarOpts(mf, newHistogramOpts(mf), <<TagType, TagLabelNames>> \o summaryTagNames)
      [] mf.Type = histogramVecType ->
            VectorOpts(mf, newHistogramOpts(mf), <<TagType>> \o summaryTagNames)
      [] mf.Type = summaryType ->
            ScalarOpts(mf, newSummaryOpts(mf), <<TagType, TagLabelNames>> \o histogramTagNames)
      [] mf.Type = summaryVecType ->
            VectorOpts(mf, newSummaryOpts(mf), <<TagType>> \o histogramTagNames)
      [] mf.Type = observerType ->
            ScalarOpts(mf, newObserverOpts(mf), <<TagLabelNames>>)
      [] mf.Type = observerVecType ->
            VectorOpts(mf, newObserverOpts(mf), <<>>)
      [] OTHER -> [opts |-> NilOpts, labelNames |-> <<>>, err |-> NoError]

------------------------------------------------------------------------------
(* The factory and the registry behind it.  The registry is the set of      *)
(* fully-qualified names that are registered.                               *)

\* a metric handle; NilHandle is the zero value of a field
NilHandle == [kind |-> "nil", vec |-> FALSE, fq |-> <<>>, labels |-> <<>>]

\* prometheus.BuildFQName
BuildFQName(ns, ss, nm) ==
    IF nm = <<>> THEN <<>>
    ELSE IF ns # <<>> /\ ss # <<>> THEN ns \o <<"_">> \o ss \o <<"_">> \o nm
    ELSE IF ns # <<>> THEN ns \o <<"_">> \o nm
    ELSE IF ss # <<>> THEN ss \o <<"_">> \o nm
    ELSE nm

\* Factory.checkName
checkName(v) == IF Len(v) = 0 THEN <<ErrNoMetricName>> ELSE NoError

\* ApplyDefaults putting the factory's non-zero defaults over the options
ApplyDefaultsAlways(o, defaults) ==
    [o EXCEPT !.Namespace = IF defaults.Namespace # <<>> THEN defaults.Namespace ELSE @,
              !.Subsystem = IF defaults.Subsystem # <<>> THEN defaults.Subsystem ELSE @]

\* ApplyDefaults(&o, f.defaults): a zero Namespace or Subsystem of the options
\* takes the factory's non-zero default
ApplyDefaults(o, defaults) ==
    [o EXCEPT !.Namespace = IF o.Namespace = <<>> THEN defaults.Namespace ELSE @,
              !.Subsystem = IF o.Subsystem = <<>> THEN defaults.Subsystem ELSE @]

\* the error Register returns
RegisterError(why, fq) ==
    [kind |-> "RegisterError", field |-> <<>>, ftype |-> "",
     msg |-> why, tag |-> "", text |-> fq, cause |-> "none"]

\* a valid prometheus label name: letters, digits and underscores, no digit
\* first, not reserved by a leading double underscore
LabelValid(l) ==
    /\ l # <<>>
    /\ \A k \in 1..Len(l) : IsLower(l[k]) \/ IsUpper(l[k]) \/ l[k] \in Digits \/ l[k] = "_"
    /\ l[1] \notin Digits
    /\ ~(Len(l) > 1 /\ l[1] = "_" /\ l[2] = "_")

\* the descriptor of a new collector is valid: its label names are valid and
\* pairwise distinct
DescValid(labels) ==
    /\ \A i \in 1..Len(labels) : LabelValid(labels[i])
    /\ \A i, j \in 1..Len(labels) : labels[i] = labels[j] => i = j

\* Register accepting a name that is already registered
RegisterAgain(registry, m) ==
    IF ~DescValid(m.labels)
    THEN [registry |-> registry, err |-> <<RegisterError("invalid descriptor", m.fq)>>]
    ELSE [registry |-> registry \cup {m.fq}, err |-> NoError]

\* Registerer.Register: an invalid descriptor and a name that is already
\* registered are errors; otherwise the name is added
Register(registry, m) ==
    IF ~DescValid(m.labels)
    THEN [registry |-> registry, err |-> <<RegisterError("invalid descriptor", m.fq)>>]
    ELSE IF m.fq \in registry
    THEN [registry |-> registry, err |-> <<RegisterError("already registered", m.fq)>>]
    ELSE [registry |-> registry \cup {m.fq}, err |-> NoError]

\* the constructors without the check of the name
NewMetricUnchecked(f, registry, o, vec, labels) ==
    LET d == ApplyDefaults(o, f.defaults)
        m == [kind |-> o.kind, vec |-> vec,
              fq |-> BuildFQName(d.Namespace, d.Subsystem, d.Name),
              labels |-> labels]
        r == Register(registry, m)
    IN  [m |-> m, err |-> r.err, registry |-> r.registry]

\* Factory.NewCounter, NewGauge, NewHistogram, NewSummary and their Vec
\* variants: check the name, apply the defaults, create and register.
\* The created collector is returned even when its registration failed.
NewMetric(f, registry, o, vec, labels) ==
    IF checkName(o.Name) # NoError
    THEN [m |-> NilHandle, err |-> checkName(o.Name), registry |-> registry]
    ELSE LET d == ApplyDefaults(o, f.defaults)
             m == [kind |-> o.kind, vec |-> vec,
                   fq |-> BuildFQName(d.Namespace, d.Subsystem, d.Name),
                   labels |-> labels]
             r == Register(registry, m)
         IN  [m |-> m, err |-> r.err, registry |-> r.registry]

OptsKinds == {"counter", "gauge", "histogram", "summary"}

\* Factory.New: panics unless o is one of the four options structs; a
\* histogram or summary is returned only when it was registered
FactoryNew(f, registry, o) ==
    IF o.kind \notin OptsKinds
    THEN [m |-> NilHandle, err |-> NoError, registry |-> registry, panic |-> TRUE]
    ELSE LET r == NewMetric(f, registry, o, FALSE, <<>>)
         IN  [m |-> IF o.kind \in {"histogram", "summary"} /\ r.err # NoError
                    THEN NilHandle ELSE r.m,
              err |-> r.err, registry |-> r.registry, panic |-> FALSE]

\* Factory.NewVec: panics unless o is one of the four options structs
FactoryNewVec(f, registry, o, labels) ==
    IF o.kind \notin OptsKinds
    THEN [m |-> NilHandle, err |-> NoError, registry |-> registry, panic |-> TRUE]
    ELSE LET r == NewMetric(f, registry, o, TRUE, labels)
         IN  [m |-> r.m, err |-> r.err, registry |-> r.registry, panic |-> FALSE]

------------------------------------------------------------------------------
(* Populating a bundle.                                                     *)

\* reflect's assignability of a created metric to a field of the given type
AssignableTo(m, ftype) ==
    CASE ftype = counterType -> m.kind = "counter" /\ ~m.vec
      [] ftype = counterVecType -> m.kind = "counter" /\ m.vec
      [] ftype = gaugeType -> m.kind = "gauge" /\ ~m.vec
      [] ftype = gaugeVecType -> m.kind = "gauge" /\ m.vec
      [] ftype = histogramType -> m.kind = "histogram" /\ ~m.vec
      [] ftype = histogramVecType -> m.kind = "histogram" /\ m.vec
      [] ftype = summaryType -> m.kind = "summary" /\ ~m.vec
      [] ftype = summaryVecType -> m.kind = "summary" /\ m.vec
      [] ftype = observerType -> m.kind \in {"histogram", "summary"} /\ ~m.vec
      [] ftype = observerVecType -> m.kind \in {"histogram", "summary"} /\ m.vec
      [] OTHER -> FALSE

\* the outcome of a populate that has not looked at any field yet
PopulateStart(registry, values) ==
    [err |-> NoError, origin |-> <<>>, values |-> values, registry |-> registry,
     calls |-> <<>>, panicked |-> FALSE]

\* origin records, for every leaf error, the index of the field whose
\* iteration appended it
Origins(acc, errs, i) == acc.origin \o [k \in 1..Len(errs) |-> i]

\* appendFieldErr keeping only the first error of a field
appendFieldErrFirst(acc, fieldErr, i) ==
    LET first == IF fieldErr = NoError THEN NoError ELSE <<fieldErr[1]>>
    IN  [acc EXCEPT !.err = MultiAppend(acc.err, first),
                    !.origin = Origins(acc, first, i)]

\* err = multierr.Append(err, fieldErr), for the errors of field i
appendFieldErr(acc, fieldErr, i) ==
    [acc EXCEPT !.err = MultiAppend(acc.err, fieldErr),
                !.origin = Origins(acc, fieldErr, i)]

\* the factory call populate makes for field i with the options o
FactoryCall(i, o, r) ==
    [i |-> i, fn |-> IF Len(o.labelNames) > 0 THEN "NewVec" ELSE "New",
     opts |-> o.opts, labelNames |-> o.labelNames, failed |-> r.err # NoError,
     err |-> r.err]

\* the end of an iteration, with the returned metric set into the field even
\* when the factory returned an error
populateSetAlways(mf, i, acc, o, r) ==
    IF r.panic
    THEN [acc EXCEPT !.panicked = TRUE, !.calls = Append(acc.calls, FactoryCall(i, o, r))]
    ELSE IF r.err # NoError
    THEN [appendFieldErr(acc, r.err, i) EXCEPT
              !.values[i] = r.m,
              !.registry = r.registry,
              !.calls = Append(acc.calls, FactoryCall(i, o, r))]
    ELSE IF ~AssignableTo(r.m, mf.Type)
    THEN [acc EXCEPT !.panicked = TRUE,
                     !.registry = r.registry,
                     !.calls = Append(acc.calls, FactoryCall(i, o, r))]
    ELSE [acc EXCEPT !.values[i] = r.m,
                     !.registry = r.registry,
                     !.calls = Append(acc.calls, FactoryCall(i, o, r))]

\* the end of an iteration: the factory returned r for field i
populateSet(mf, i, acc, o, r) ==
    IF r.panic
    THEN [acc EXCEPT !.panicked = TRUE, !.calls = Append(acc.calls, FactoryCall(i, o, r))]
    ELSE IF r.err # NoError
    THEN [appendFieldErr(acc, r.err, i) EXCEPT
              !.registry = r.registry,
              !.calls = Append(acc.calls, FactoryCall(i, o, r))]
    ELSE IF ~AssignableTo(r.m, mf.Type)
    THEN [acc EXCEPT !.panicked = TRUE,
                     !.registry = r.registry,
                     !.calls = Append(acc.calls, FactoryCall(i, o, r))]
    ELSE [acc EXCEPT !.values[i] = r.m,
                     !.registry = r.registry,
                     !.calls = Append(acc.calls, FactoryCall(i, o, r))]

\* populateNew calling the factory whenever options were built, error or not
populateNewDespiteError(f, mf, i, acc, o) ==
    IF o.opts = NilOpts THEN acc
    ELSE populateSet(mf, i, acc, o,
             IF Len(o.labelNames) > 0
             THEN FactoryNewVec(f, acc.registry, o.opts, o.labelNames)
             ELSE FactoryNew(f, acc.registry, o.opts))

\* populateNew choosing vector construction only for two or more label names
populateNewByCount(f, mf, i, acc, o) ==
    IF o.opts = NilOpts \/ o.err # NoError THEN acc
    ELSE populateSet(mf, i, acc, o,
             IF Len(o.labelNames) > 1
             THEN FactoryNewVec(f, acc.registry, o.opts, o.labelNames)
             ELSE FactoryNew(f, acc.registry, o.opts))

\* populateNew without the test for nil options
populateNewAnyOpts(f, mf, i, acc, o) ==
    IF o.err # NoError THEN acc
    ELSE populateSet(mf, i, acc, o,
             IF Len(o.labelNames) > 0
             THEN FactoryNewVec(f, acc.registry, o.opts, o.labelNames)
             ELSE FactoryNew(f, acc.registry, o.opts))

\* the middle of an iteration: newOpts returned o and its error is appended
\* to acc; nil options or an error skip the field
populateNew(f, mf, i, acc, o) ==
    IF o.opts = NilOpts \/ o.err # NoError THEN acc
    ELSE populateSet(mf, i, acc, o,
             IF Len(o.labelNames) > 0
             THEN FactoryNewVec(f, acc.registry, o.opts, o.labelNames)
             ELSE FactoryNew(f, acc.registry, o.opts))

\* the options of field i are known: append their error and go on
populateOpts(f, mf, i, acc, o) == populateNew(f, mf, i, appendFieldErr(acc, o.err, i), o)

\* one iteration of the loop of populate, for the field mf at index i
populateField(f, mf, i, acc) ==
    IF skip(mf) THEN acc ELSE populateOpts(f, mf, i, acc, newOpts(mf))

RECURSIVE populateFromFailFast(_, _, _, _)
\* populateFrom as a fail-fast loop: it stops at the first field error
populateFromFailFast(f, fields, i, acc) ==
    IF i > Len(fields) \/ acc.panicked \/ acc.err # NoError THEN acc
    ELSE populateFromFailFast(f, fields, i + 1, populateField(f, fields[i], i, acc))

RECURSIVE populateFromLast(_, _, _, _)
\* populateFrom going through the fields from the last one to field i
populateFromLast(f, fields, i, acc) ==
    IF i > Len(fields) THEN acc
    ELSE LET rest == populateFromLast(f, fields, i + 1, acc)
         IN  IF rest.panicked THEN rest ELSE populateField(f, fields[i], i, rest)

RECURSIVE populateFrom(_, _, _, _)
\* the loop of populate from field i on; a panic ends it
populateFrom(f, fields, i, acc) ==
    IF i > Len(fields) \/ acc.panicked THEN acc
    ELSE populateFrom(f, fields, i + 1, populateField(f, fields[i], i, acc))

\* populate fills out an addressable bundle struct
populate(f, registry, fields, values) ==
    populateFrom(f, fields, 1, PopulateStart(registry, values))

\* the error of Populate for an argument that is no valid bundle
StructuralError ==
    [kind |-> "StructuralError", field |-> <<>>, ftype |-> "",
     msg |-> "is not a valid bundle", tag |-> "", text |-> <<>>, cause |-> "none"]

\* Populate without the check that the struct is addressable
PopulateAnyStruct(f, registry, b) ==
    LET isPtr == b.kind = "ptr" /\ ~b.isNil
        bvKind == IF isPtr THEN b.elemKind ELSE b.kind
    IN  IF bvKind # "struct"
        THEN [PopulateStart(registry, b.values) EXCEPT !.err = <<StructuralError>>,
                                                       !.origin = <<0>>]
        ELSE populate(f, registry, b.fields, b.values)

\* Populate: b is the Bundle argument.  reflect.ValueOf(b) has b's kind and is
\* not addressable; the Elem of a non-nil pointer has the pointed-to kind and
\* is addressable.
Populate(f, registry, b) ==
    LET isPtr == b.kind = "ptr" /\ ~b.isNil
        bvKind == IF isPtr THEN b.elemKind ELSE b.kind
        bvCanAddr == isPtr
    IN  IF bvKind # "struct" \/ ~bvCanAddr
        THEN [PopulateStart(registry, b.values) EXCEPT !.err = <<StructuralError>>,
                                                       !.origin = <<0>>]
        ELSE populate(f, registry, b.fields, b.values)

------------------------------------------------------------------------------
(* The inputs: struct fields, bundle types and Populate arguments.          *)

TagKeys ==
    <<TagTouchstone, TagNamespace, TagSubsystem, TagName, TagHelp, TagBuckets,
      TagObjectives, TagMaxAge, TagAgeBuckets, TagBufCap, TagLabelNames, TagType>>

LabelAlphabet == {"a", Comma, Sp}

\* the values a tag takes in the model; the empty value stands for a tag
\* that is present and empty
TagValues(key) ==
    CASE key = TagTouchstone -> {<<"-">>, <<"x">>}
      [] key = TagNamespace -> {<<"o">>}
      [] key = TagSubsystem -> {<<"u">>}
      [] key = TagName -> {<<"c">>, <<"p", "_", "*">>}
      [] key = TagHelp -> {<<"h">>}
      [] key = TagBuckets -> {<<>>, <<"1", Comma, Sp, "2">>, <<"1", Comma, "x">>}
      [] key = TagObjectives ->
            {<<>>, <<"1", Colon, "2">>, <<"x", Colon, "2">>, <<"x", Colon, "y">>}
      [] key = TagMaxAge -> {<<>>, <<"1", "s">>, <<"1">>}
      [] key = TagAgeBuckets -> {<<>>, <<"5">>, <<"x">>}
      [] key = TagBufCap -> {<<>>, <<"5">>, <<"x">>}
      [] key = TagLabelNames ->
            SeqsUpTo(LabelAlphabet, MaxLabelTagLen)
                \cup {<<"a", Comma, "b">>, <<"a", Comma, "a">>}
      [] key = TagType -> {<<>>, TypeHistogram, TypeSummary, <<"x">>}

\* the field without tags
NoTags == [k \in {} |-> <<>>]

RECURSIVE TagBagsFrom(_, _)
\* the tag sets that use the keys from index i on and hold at most n tags
TagBagsFrom(i, n) ==
    IF i > Len(TagKeys) \/ n = 0 THEN {NoTags}
    ELSE TagBagsFrom(i + 1, n)
           \cup {(TagKeys[i] :> v) @@ b : v \in TagValues(TagKeys[i]),
                                          b \in TagBagsFrom(i + 1, n - 1)}

TagBags == TagBagsFrom(1, MaxTags)

FieldTypes ==
    {counterType, counterVecType, gaugeType, gaugeVecType, histogramType,
     histogramVecType, summaryType, summaryVecType, observerType, observerVecType,
     intType}

MetricTypes == FieldTypes \ {intType}

VectorTypes ==
    {counterVecType, gaugeVecType, histogramVecType, summaryVecType, observerVecType}

\* the name of the exported field declared at position i
FieldNames == <<<<"A">>, <<"B">>, <<"C">>, <<"D">>>>

\* an exported field, an unexported field (it has a package path) and an
\* embedded field
ExportedField(i, type, tag) ==
    [Name |-> FieldNames[i], Type |-> type, PkgPath |-> <<>>, Anonymous |-> FALSE, Tag |-> tag]

UnexportedField(i, type, tag) ==
    [Name |-> <<ToLower(FieldNames[i][1])>>, Type |-> type, PkgPath |-> <<"p">>,
     Anonymous |-> FALSE, Tag |-> tag]

EmbeddedField(i, type, tag) ==
    [Name |-> FieldNames[i], Type |-> type, PkgPath |-> <<>>, Anonymous |-> TRUE, Tag |-> tag]

\* how a field that populate skips is declared
Visibilities == {"unexported", "embedded"}

\* the field declared at position i with the given visibility
MakeField(i, vis, type, tag) ==
    CASE vis = "unexported" -> UnexportedField(i, type, tag)
      [] vis = "embedded" -> EmbeddedField(i, type, tag)

\* the tags of the unexported and embedded fields
HiddenTags == {NoTags, TagLabelNames :> <<"a">>, TagType :> <<"x">>}

\* the fields that bundles of several fields are made of, declared at
\* position i: fields that populate, fields with one or two tag errors, a
\* field whose tag fails to parse, fields that compete for one metric name,
\* a vector whose labels the registry rejects, and fields populate skips
MenuFields(i) ==
    {ExportedField(i, counterType, NoTags),
     ExportedField(i, counterType, TagName :> <<"c">>),
     ExportedField(i, counterVecType, TagLabelNames :> <<"a">>),
     ExportedField(i, counterVecType, NoTags),
     ExportedField(i, counterVecType, TagLabelNames :> <<"a", Comma, "a">>),
     ExportedField(i, counterType, (TagType :> <<"x">>) @@ (TagLabelNames :> <<"a">>)),
     ExportedField(i, histogramType, TagBuckets :> <<"x">>),
     ExportedField(i, histogramType, TagName :> <<"c">>),
     ExportedField(i, observerType, NoTags),
     ExportedField(i, observerType, TagType :> <<"x">>),
     ExportedField(i, counterType, TagTouchstone :> <<"-">>),
     ExportedField(i, intType, NoTags),
     UnexportedField(i, counterType, NoTags),
     EmbeddedField(i, counterType, NoTags)}

RECURSIVE MenuBundles(_)
\* the field lists of exactly n menu fields
MenuBundles(n) ==
    IF n = 0 THEN {<<>>}
    ELSE {Append(fs, mf) : fs \in MenuBundles(n - 1), mf \in MenuFields(n)}

\* the zero value of a struct with the given fields
ZeroValues(fields) == [i \in 1..Len(fields) |-> NilHandle]

\* a non-nil pointer to a zero-valued struct
PtrToStruct(fields) ==
    [kind |-> "ptr", isNil |-> FALSE, elemKind |-> "struct",
     fields |-> fields, values |-> ZeroValues(fields)]

\* an argument of another shape
OtherArg(kind, isNil, elemKind, fields) ==
    [kind |-> kind, isNil |-> isNil, elemKind |-> elemKind,
     fields |-> fields, values |-> ZeroValues(fields)]

\* a struct that would populate without error, used for the invalid shapes
PlainFields == <<ExportedField(1, counterType, NoTags)>>

\* the nil interface, an int, a struct by value, a nil pointer to struct, a
\* pointer to an int and a pointer to a pointer to struct
InvalidArgs ==
    {OtherArg("invalid", FALSE, "none", <<>>),
     OtherArg("int", FALSE, "none", <<>>),
     OtherArg("struct", FALSE, "none", PlainFields),
     OtherArg("ptr", TRUE, "struct", PlainFields),
     OtherArg("ptr", FALSE, "int", <<>>),
     OtherArg("ptr", FALSE, "ptr", PlainFields)}

BundleArgs ==
    InvalidArgs \cup {PtrToStruct(fs) : fs \in UNION {MenuBundles(n) : n \in 0..MaxFields}}

\* the characters identifiers are enumerated over: a lowercase letter, two
\* uppercase letters, a digit and the separator
IdentAlphabet == {"a", "A", "B", "0", snakeCaseSeparator}

\* the identifiers of the tests of toSnakeCase
TestIdentifiers ==
    {<<"S", "i", "m", "p", "l", "e">>,
     <<"R", "e", "q", "u", "e", "s", "t", "C", "o", "u", "n", "t">>,
     <<"R", "e", "q", "u", "e", "s", "t", "U", "R", "I">>,
     <<"I", "N", "I", "T", "I", "A", "L", "C", "A", "P", "S">>,
     <<"P", "r", "e", "s", "e", "r", "v", "e", "_", "u", "n", "d", "e", "r",
       "s", "c", "o", "r", "e">>,
     <<"S", "o", "m", "e", "t", "h", "i", "n", "g", "A", "B", "C", "D", "o", "i", "t">>,
     <<"A", "C", "o", "m", "p", "l", "e", "x", "0", "0", "I", "d", "e", "n", "t",
       "i", "f", "i", "e", "r">>}

\* the identifiers toSnakeCase is applied to
Identifiers == SeqsUpTo(IdentAlphabet, MaxIdentLen) \cup TestIdentifiers

\* the field names MetricName is applied to
FieldIdentifiers == SeqsUpTo(IdentAlphabet, MaxFieldNameLen) \cup TestIdentifiers

\* the characters name tags are enumerated over
NameAlphabet == {"a", Star, snakeCaseSeparator}

\* the name tags of the tests of MetricName
TestNames ==
    {<<"c", "u", "s", "t", "o", "m", "_", "n", "a", "m", "e">>,
     <<"p", "r", "e", "f", "i", "x", "_", Star>>,
     <<Star, "_", "s", "u", "f", "f", "i", "x">>,
     <<"a", "_", Star, "_", "b">>}

\* the tags of the fields MetricName is applied to: no name tag, or a name
\* tag of any value
NameTags ==
    {NoTags} \cup {TagName :> v : v \in SeqsUpTo(NameAlphabet, MaxNameTagLen) \cup TestNames}

\* a metric made elsewhere, held by a field of a prototype
OldHandle == [kind |-> "counter", vec |-> FALSE, fq |-> <<"z">>, labels |-> <<>>]

\* the prototypes Provide accepts: a struct by value or a pointer to a
\* struct, its fields nil or set, and a nil pointer to a struct
PrototypeShapes == {"struct", "structSet", "ptr", "ptrSet", "nilPtr"}

Prototype(shape, fields) ==
    [kind |-> IF shape \in {"struct", "structSet"} THEN "struct" ELSE "ptr",
     isNil |-> shape = "nilPtr",
     elemKind |-> IF shape \in {"struct", "structSet"} THEN "none" ELSE "struct",
     fields |-> fields,
     values |-> IF shape \in {"structSet", "ptrSet"}
                THEN [i \in 1..Len(fields) |-> OldHandle]
                ELSE ZeroValues(fields)]

\* the nil interface, an int, a pointer to an int and a pointer to a
\* pointer to struct
InvalidPrototypes ==
    {OtherArg("invalid", FALSE, "none", <<>>),
     OtherArg("int", FALSE, "none", <<>>),
     OtherArg("ptr", FALSE, "int", <<>>),
     OtherArg("ptr", FALSE, "ptr", PlainFields)}

\* what Provide returns for a prototype: fx.Provide of a constructor for a
\* struct or a pointer to struct (nil or not), fx.Error for another type.
\* reflect.TypeOf of the nil interface is nil, and Kind() on it panics.
Provide(prototype) ==
    IF prototype.kind = "invalid" THEN "panic"
    ELSE IF prototype.kind = "struct" THEN "provide"
    ELSE IF prototype.kind = "ptr" /\ prototype.elemKind = "struct" THEN "provide"
    ELSE "error"

\* the constructor leaving its error result unset
ctorOutNilError(prototype, id, r) ==
    [out |-> [kind |-> prototype.kind, isNil |-> FALSE, id |-> id, values |-> r.values],
     prototype |-> prototype, r |-> [r EXCEPT !.err = NoError, !.origin = <<>>]]

\* what the constructor returns after populate returned r for the instance
\* with the given id: the instance by value or a pointer to it, and the
\* prototype as the call leaves it
ctorOut(prototype, id, r) ==
    [out |-> [kind |-> prototype.kind, isNil |-> FALSE, id |-> id, values |-> r.values],
     prototype |-> prototype, r |-> r]

\* the constructor populating the prototype's own struct
ctorOnPrototype(f, registry, prototype, id) ==
    LET r == populate(f, registry, prototype.fields, prototype.values)
    IN  [out |-> [kind |-> prototype.kind, isNil |-> FALSE, id |-> 0, values |-> r.values],
         prototype |-> [prototype EXCEPT !.values = r.values], r |-> r]

\* the constructor Provide makes: reflect.New(structType), then populate
ctor(f, registry, prototype, id) ==
    ctorOut(prototype, id, populate(f, registry, prototype.fields, ZeroValues(prototype.fields)))

\* the options the factory's constructors are called with: no name or
\* "test", no namespace or "o1", no subsystem or "o2"
NewNames == {<<>>, <<"t", "e", "s", "t">>}
NewNamespaces == {<<>>, <<"o", "1">>}
NewSubsystems == {<<>>, <<"o", "2">>}

\* the label names the Vec constructors are called with; none for the
\* constructors of single metrics
NewLabels == {<<>>, <<<<"l", "a", "b", "e", "l", "1">>, <<"l", "a", "b", "e", "l", "2">>>>}

\* the configurations a factory is created with
FactoryConfigs ==
    {[defaults |-> [Namespace |-> <<>>, Subsystem |-> <<>>]],
     [defaults |-> [Namespace |-> <<"n">>, Subsystem |-> <<"s">>]]}

------------------------------------------------------------------------------
(* The state machine.                                                       *)

VARIABLES
    factory,    \* the Factory: its default namespace and subsystem
    registry,   \* the fully-qualified names registered with the registry
    bundle,     \* the argument of the last Populate, with the struct's values
    ret,        \* what the last Populate returned
    calls,      \* the factory calls the last Populate made
    populates,  \* the number of Populate calls against the factory
    conv,       \* the last call of toSnakeCase or MetricName and what it returned
    app,        \* the option Provide returned and what its constructor made
    made,       \* the last direct call of a constructor of the factory
    http        \* an HTTP instrumenter: its metrics and the requests through it

vars == <<factory, registry, bundle, ret, calls, populates, conv, app, made, http>>

\* no name has been converted
NoConversion == [op |-> "none", field |-> <<>>, tag |-> <<>>, out |-> <<>>, again |-> <<>>]

\* no component: nothing was constructed
NoComponent == [kind |-> "none", isNil |-> TRUE, id |-> 0, values |-> <<>>]

\* Provide has not been called
NoApp ==
    [option |-> "none", prototype |-> OtherArg("invalid", FALSE, "none", <<>>),
     given |-> OtherArg("invalid", FALSE, "none", <<>>),
     instances |-> 0, component |-> NoComponent, failed |-> FALSE, target |-> NoComponent]

\* the zero value of the variable fx.Populate fills with the component: a
\* struct with nil fields, or a nil pointer
ZeroTarget(prototype) ==
    IF prototype.kind = "struct"
    THEN [kind |-> "struct", isNil |-> FALSE, id |-> 0, values |-> ZeroValues(prototype.fields)]
    ELSE [kind |-> "ptr", isNil |-> TRUE, id |-> 0, values |-> <<>>]

\* no constructor of the factory has been called directly
NoNew ==
    [n |-> 0, opts |-> NilOpts, labels |-> <<>>, m |-> NilHandle, err |-> NoError,
     before |-> {}]

\* the requests sent through the instrumenter
Requests == 1..MaxRequests

\* the values of the code label the requests of the model end with
CodeLabels == {"200", "500", "-1"}

\* formatCode for the status codes of the model: no status written counts
\* as 200, a code below 100 is unknown
formatCode(v) == IF v = 0 THEN "200" ELSE IF v < 100 THEN "-1" ELSE IF v = 200 THEN "200" ELSE "500"

\* no instrumenter yet; its metrics start at zero and no request has begun
NoInstrumenter ==
    [kind |-> "none", inFlight |-> 0, count |-> [c \in CodeLabels |-> 0],
     duration |-> 0, requestSize |-> 0, errorCount |-> 0,
     pc |-> [r \in Requests |-> "new"],
     code |-> [r \in Requests |-> 0],
     err |-> [r \in Requests |-> FALSE]]

\* NewFactory with a fresh registry; nothing is populated yet
Init ==
    /\ factory \in FactoryConfigs
    /\ registry = {}
    /\ bundle = OtherArg("invalid", FALSE, "none", <<>>)
    /\ ret = [called |-> FALSE, err |-> NoError, origin |-> <<>>, panicked |-> FALSE,
              before |-> {}, old |-> <<>>]
    /\ calls = <<>>
    /\ populates = 0
    /\ conv = NoConversion
    /\ app = NoApp
    /\ made = NoNew
    /\ http = NoInstrumenter

\* one call of Populate(factory, b); ret also keeps the registry and the
\* struct's values as they were before the call
Call(b) ==
    \E r \in {Populate(factory, registry, b)} :
        /\ registry' = r.registry
        /\ bundle' = [b EXCEPT !.values = r.values]
        /\ ret' = [called |-> TRUE, err |-> r.err, origin |-> r.origin,
                   panicked |-> r.panicked, before |-> registry, old |-> b.values]
        /\ calls' = r.calls
        /\ populates' = populates + 1
        /\ UNCHANGED <<factory, conv, app, made, http>>

\* the first Populate against the factory, with a bundle of several fields
PopulateBundle ==
    /\ populates = 0
    /\ \E b \in BundleArgs : Call(b)

\* the first Populate against the factory, with a bundle of one exported
\* field of any type and tags
PopulateField ==
    /\ populates = 0
    /\ \E type \in FieldTypes, tag \in TagBags :
           Call(PtrToStruct(<<ExportedField(1, type, tag)>>))

\* the first Populate against the factory, with a bundle of one field that
\* is unexported or embedded
PopulateHidden ==
    /\ populates = 0
    /\ \E vis \in Visibilities, type \in FieldTypes, tag \in HiddenTags :
           Call(PtrToStruct(<<MakeField(1, vis, type, tag)>>))

\* Populate again with the same argument: the struct keeps its values
Repopulate ==
    /\ populates \in 1..(MaxPopulates - 1)
    /\ Call(bundle)

\* Populate a fresh struct of the same type with the same factory
PopulateFresh ==
    /\ populates \in 1..(MaxPopulates - 1)
    /\ Call([bundle EXCEPT !.values = ZeroValues(bundle.fields)])

Next == PopulateBundle \/ Repopulate \/ PopulateFresh

Spec == Init /\ [][Next]_vars

NextField == PopulateField \/ PopulateHidden

SpecField == Init /\ [][NextField]_vars

\* toSnakeCase(identifier), and toSnakeCase of what it returned
SnakeCase ==
    /\ conv.op = "none"
    /\ \E identifier \in Identifiers :
           conv' = [op |-> "toSnakeCase", field |-> identifier, tag |-> <<>>,
                    out |-> toSnakeCase(identifier),
                    again |-> toSnakeCase(toSnakeCase(identifier))]
    /\ UNCHANGED <<factory, registry, bundle, ret, calls, populates, app, made, http>>

\* MetricName(f) for a field with the given name and tags
NameField ==
    /\ conv.op = "none"
    /\ \E identifier \in FieldIdentifiers, tag \in NameTags :
           conv' = [op |-> "MetricName", field |-> identifier, tag |-> tag,
                    out |-> MetricName([Name |-> identifier, Tag |-> tag]),
                    again |-> <<>>]
    /\ UNCHANGED <<factory, registry, bundle, ret, calls, populates, app, made, http>>

NextName == SnakeCase \/ NameField

SpecName == Init /\ [][NextName]_vars

\* Provide(prototype) for a struct or a pointer to struct; app.given keeps
\* the prototype as it was handed in
ProvidePrototype ==
    /\ app.option = "none"
    /\ \E n \in 0..MaxFields :
           \E fields \in MenuBundles(n), shape \in PrototypeShapes :
               app' = [app EXCEPT !.option = Provide(Prototype(shape, fields)),
                                  !.prototype = Prototype(shape, fields),
                                  !.given = Prototype(shape, fields),
                                  !.target = ZeroTarget(Prototype(shape, fields))]
    /\ UNCHANGED <<factory, registry, bundle, ret, calls, populates, conv, made, http>>

\* Provide(prototype) for a prototype of another type
ProvideInvalid ==
    /\ app.option = "none"
    /\ \E prototype \in InvalidPrototypes :
           app' = [app EXCEPT !.option = Provide(prototype),
                              !.prototype = prototype,
                              !.given = prototype]
    /\ UNCHANGED <<factory, registry, bundle, ret, calls, populates, conv, made, http>>

\* an fx application built with the option resolves the component for a
\* target that starts at its zero value: it calls the constructor with the
\* factory and hands the result to the target unless the constructor failed.
\* bundle is the new instance the constructor populated.
InvokeCtor ==
    /\ app.option = "provide"
    /\ populates < MaxPopulates
    /\ \E c \in {ctor(factory, registry, app.prototype, app.instances + 1)} :
           /\ registry' = c.r.registry
           /\ bundle' = [PtrToStruct(app.prototype.fields) EXCEPT !.values = c.r.values]
           /\ ret' = [called |-> TRUE, err |-> c.r.err, origin |-> c.r.origin,
                      panicked |-> c.r.panicked, before |-> registry,
                      old |-> ZeroValues(app.prototype.fields)]
           /\ calls' = c.r.calls
           /\ app' = [app EXCEPT !.prototype = c.prototype,
                                 !.instances = @ + 1,
                                 !.component = IF c.r.panicked THEN NoComponent ELSE c.out,
                                 !.failed = c.r.err # NoError,
                                 !.target = IF c.r.err = NoError /\ ~c.r.panicked
                                            THEN c.out ELSE ZeroTarget(app.given)]
    /\ populates' = populates + 1
    /\ UNCHANGED <<factory, conv, made, http>>

NextProvide == ProvidePrototype \/ ProvideInvalid \/ InvokeCtor

SpecProvide == Init /\ [][NextProvide]_vars

\* a direct call of NewCounter, NewGauge, NewHistogram or NewSummary, or of
\* their Vec variants when label names are given; made.before keeps the
\* registry as it was before the call
NewTyped ==
    /\ made.n < MaxNews
    /\ \E kind \in OptsKinds, nm \in NewNames, ns \in NewNamespaces,
          ss \in NewSubsystems, labels \in NewLabels :
           \E o \in {[NilOpts EXCEPT !.kind = kind, !.Name = nm,
                                     !.Namespace = ns, !.Subsystem = ss]} :
               \E r \in {NewMetric(factory, registry, o, labels # <<>>, labels)} :
                   /\ registry' = r.registry
                   /\ made' = [n |-> made.n + 1, opts |-> o, labels |-> labels,
                               m |-> r.m, err |-> r.err, before |-> registry]
    /\ UNCHANGED <<factory, bundle, ret, calls, populates, conv, app, http>>

NextFactory == NewTyped

SpecFactory == Init /\ [][NextFactory]_vars

\* the other variables, which the instrumenter leaves alone
populateVars == <<factory, registry, bundle, ret, calls, populates, conv, app, made>>

\* a ServerInstrumenter or a ClientInstrumenter is built
NewInstrumenter ==
    /\ http.kind = "none"
    /\ \E kind \in {"server", "client"} : http' = [http EXCEPT !.kind = kind]
    /\ UNCHANGED populateVars

\* instrumenter.begin without the increment of the gauge
beginUncounted(r) ==
    /\ http.kind # "none"
    /\ http.pc[r] = "new"
    /\ http' = [http EXCEPT !.pc[r] = "next"]
    /\ UNCHANGED populateVars

\* instrumenter.begin for request r, called by Then before the wrapped
\* handler or client
begin(r) ==
    /\ http.kind # "none"
    /\ http.pc[r] = "new"
    /\ http' = [http EXCEPT !.inFlight = @ + 1, !.pc[r] = "next"]
    /\ UNCHANGED populateVars

Begin == \E r \in Requests : begin(r)

\* next.ServeHTTP(w, r) returns, having written no status, 200 or 500; the
\* deferred endHandle takes the status from w
ServeHTTP ==
    /\ http.kind = "server"
    /\ \E r \in Requests, code \in {0, 200, 500} :
           /\ http.pc[r] = "next"
           /\ http' = [http EXCEPT !.pc[r] = "end", !.code[r] = code]
    /\ UNCHANGED populateVars

\* next.Do(request) returns a response or an error; endDo takes the code
\* of the response, or -1 without one
Do ==
    /\ http.kind = "client"
    /\ \E r \in Requests, code \in {200, 500, -1} :
           /\ http.pc[r] = "next"
           /\ http' = [http EXCEPT !.pc[r] = "end", !.code[r] = code, !.err[r] = (code = -1)]
    /\ UNCHANGED populateVars

\* instrumenter.end for request r, one operation on a metric at a time: the
\* gauge, the counter, the two observers and, in a client with an error,
\* the error counter
end(r) ==
    /\ \/ /\ http.pc[r] = "end"
          /\ http' = [http EXCEPT !.inFlight = @ - 1, !.pc[r] = "count"]
       \/ /\ http.pc[r] = "count"
          /\ http' = [http EXCEPT !.count[formatCode(http.code[r])] = @ + 1,
                                  !.pc[r] = "duration"]
       \/ /\ http.pc[r] = "duration"
          /\ http' = [http EXCEPT !.duration = @ + 1, !.pc[r] = "requestSize"]
       \/ /\ http.pc[r] = "requestSize"
          /\ http' = [http EXCEPT !.requestSize = @ + 1,
                                  !.pc[r] = IF http.kind = "client" /\ http.err[r]
                                            THEN "errorCount" ELSE "done"]
       \/ /\ http.pc[r] = "errorCount"
          /\ http' = [http EXCEPT !.errorCount = @ + 1, !.pc[r] = "done"]
    /\ UNCHANGED populateVars

End == \E r \in Requests : end(r)

NextHTTP == NewInstrumenter \/ Begin \/ ServeHTTP \/ Do \/ End

SpecHTTP == Init /\ [][NextHTTP]_vars

------------------------------------------------------------------------------
(* Vocabulary of the properties.  These describe the last Populate call     *)
(* from the bundle's declaration, not from what populate computed.          *)

\* the last call was given a non-nil pointer to a struct
ValidArg == bundle.kind = "ptr" /\ ~bundle.isNil /\ bundle.elemKind = "struct"

\* Populate has returned for a valid bundle
Populated == ret.called /\ ValidArg

NumFields == Len(bundle.fields)

\* field i is one that Populate has to fill: exported, not embedded, not
\* ignored, of a metric type
IsMetricField(i) ==
    LET mf == bundle.fields[i]
    IN  /\ mf.PkgPath = <<>>
        /\ ~mf.Anonymous
        /\ ~(TagTouchstone \in DOMAIN mf.Tag /\ mf.Tag[TagTouchstone] = <<"-">>)
        /\ mf.Type \in MetricTypes

\* the fully-qualified name field i registers under
FieldFQName(i) ==
    LET mf == bundle.fields[i]
        ns == IF TagGet(mf, TagNamespace) # <<>> THEN TagGet(mf, TagNamespace)
              ELSE factory.defaults.Namespace
        ss == IF TagGet(mf, TagSubsystem) # <<>> THEN TagGet(mf, TagSubsystem)
              ELSE factory.defaults.Subsystem
    IN  BuildFQName(ns, ss, MetricName(mf))

\* the label names field i declares: the trimmed parts of its labelNames tag
DeclaredLabels(i) ==
    LET parts == Split(TagGet(bundle.fields[i], TagLabelNames), Comma)
    IN  [k \in 1..Len(parts) |-> TrimSpace(parts[k])]

\* field i has no tag error and describes a metric the registry accepts
\* when its name is free
WellFormed(i) ==
    /\ IsMetricField(i)
    /\ newOpts(bundle.fields[i]).err = NoError
    /\ bundle.fields[i].Type \in VectorTypes => DescValid(DeclaredLabels(i))

\* field i is valid in this call: well formed, and its name is neither
\* registered before the call nor taken by an earlier field of the struct
ValidField(i) ==
    /\ WellFormed(i)
    /\ FieldFQName(i) \notin ret.before
    /\ \A j \in 1..(i - 1) : ~(WellFormed(j) /\ FieldFQName(j) = FieldFQName(i))

\* field i fails in this call
FailingField(i) == IsMetricField(i) /\ ~ValidField(i)

\* the factory calls the last Populate made for field i
CallsFor(i) == {k \in 1..Len(calls) : calls[k].i = i}

\* the errors the last Populate returned for field i
ErrorsFor(i) == {k \in 1..Len(ret.err) : ret.origin[k] = i}

\* field i was created through the factory and assigned into the struct
Created(i) ==
    /\ Cardinality(CallsFor(i)) = 1
    /\ \A k \in CallsFor(i) : ~calls[k].failed
    /\ bundle.values[i] # NilHandle
    /\ bundle.values[i].fq = FieldFQName(i)
    /\ bundle.values[i].fq \in registry

------------------------------------------------------------------------------
(* Properties.                                                              *)

\* C1: Populate is fail-soft.  When some field of the bundle fails (a tag
\* error or a factory error), every valid field of the same struct, declared
\* before or after the failing one, is still created through the factory and
\* assigned, and Populate returns a non-nil error.
C1_FailSoft ==
    (Populated /\ \E j \in 1..NumFields : FailingField(j))
        => /\ ret.err # NoError
           /\ ~ret.panicked
           /\ \A i \in 1..NumFields : ValidField(i) => Created(i)

\* a valid field declared after a failing one has been created
C1_Witness ==
    /\ Populated
    /\ \E j, i \in 1..NumFields : j < i /\ FailingField(j) /\ ValidField(i) /\ Created(i)

\* the errors the last Populate returned for field i that are FieldErrors
\* naming the field, with the given message and tag
FieldErrorsOf(i, message, tagName) ==
    {k \in ErrorsFor(i) : /\ ret.err[k].kind = "FieldError"
                          /\ ret.err[k].field = bundle.fields[i].Name
                          /\ ret.err[k].ftype = bundle.fields[i].Type
                          /\ ret.err[k].msg = message
                          /\ ret.err[k].tag = tagName}

\* nothing was created for field i: no factory call, and the field is nil
Untouched(i) == CallsFor(i) = {} /\ bundle.values[i] = NilHandle

\* the number of invalid fields of the bundle in this call
NumFailing == Cardinality({i \in 1..NumFields : FailingField(i)})

\* the number of faults of field i in this call: its offending tags, or the
\* one refusal of the factory when the tags are fine
Faults(i) ==
    IF ~FailingField(i) THEN 0
    ELSE IF newOpts(bundle.fields[i]).err # NoError
    THEN Len(newOpts(bundle.fields[i]).err)
    ELSE 1

ResolvedKind(mf) ==
    CASE mf.Type \in {counterType, counterVecType} -> "counter"
      [] mf.Type \in {gaugeType, gaugeVecType} -> "gauge"
      [] mf.Type \in {histogramType, histogramVecType} -> "histogram"
      [] mf.Type \in {summaryType, summaryVecType} -> "summary"
      [] mf.Type \in {observerType, observerVecType} ->
            IF TagGet(mf, TagType) = TypeHistogram THEN "histogram"
            ELSE IF TagGet(mf, TagType) = TypeSummary THEN "summary"
            ELSE IF \E t \in {TagObjectives, TagMaxAge, TagAgeBuckets, TagBufCap} :
                       t \in DOMAIN mf.Tag
            THEN "summary"
            ELSE "histogram"

\* field i holds a handle of the kind it resolves to, built by the one
\* factory call for it: NewVec for a vector type, New for a scalar type
HandleMatches(i) ==
    LET mf == bundle.fields[i]
        isVec == mf.Type \in VectorTypes
    IN  /\ bundle.values[i] # NilHandle
        /\ bundle.values[i].kind = ResolvedKind(mf)
        /\ bundle.values[i].vec = isVec
        /\ Cardinality(CallsFor(i)) = 1
        /\ \A k \in CallsFor(i) : /\ calls[k].fn = (IF isVec THEN "NewVec" ELSE "New")
                                  /\ calls[k].opts.kind = ResolvedKind(mf)

\* C3: whenever Populate returns nil, every exported, non-embedded,
\* non-ignored field of a metric type holds a non-nil handle of the field's
\* kind, built with New for a scalar type and NewVec for a vector type; the
\* assignment into a field never has a type mismatch.
C3_HandlesMatch ==
    /\ ret.called => ~ret.panicked
    /\ (Populated /\ ret.err = NoError)
           => \A i \in 1..NumFields : IsMetricField(i) => HandleMatches(i)

\* an observer vector was populated without error as a summary
C3_Witness ==
    /\ Populated
    /\ ret.err = NoError
    /\ \E i \in 1..NumFields :
           /\ IsMetricField(i)
           /\ bundle.fields[i].Type = observerVecType
           /\ bundle.values[i].kind = "summary"
           /\ bundle.values[i].vec

\* C4: for an argument that is not a non-nil pointer to a struct, Populate
\* returns a non-nil error without a panic, processes no field and makes no
\* factory call: the registry and the argument are as before.
C4_InvalidBundle ==
    (ret.called /\ ~ValidArg)
        => /\ ret.err # NoError
           /\ ret.origin = <<0>>
           /\ ~ret.panicked
           /\ calls = <<>>
           /\ registry = ret.before
           /\ bundle.values = ret.old

\* Populate has returned for a struct passed by value
C4_Witness ==
    /\ ret.called
    /\ bundle.kind = "struct"
    /\ bundle.fields # <<>>
    /\ ret.err # NoError
    /\ calls = <<>>

\* field i is of a vector type
IsVectorField(i) == IsMetricField(i) /\ bundle.fields[i].Type \in VectorTypes

\* the labelNames tag of field i is absent, empty or only whitespace
LabelNamesBlank(i) ==
    \/ TagLabelNames \notin DOMAIN bundle.fields[i].Tag
    \/ AllIn(bundle.fields[i].Tag[TagLabelNames], {Sp})

\* C5: a vector field whose labelNames tag is absent, empty or only
\* whitespace yields a field error that names the labelNames tag as
\* required, and the field is left nil.
C5_LabelNamesRequired ==
    Populated
        => \A i \in 1..NumFields :
               (IsVectorField(i) /\ LabelNamesBlank(i))
                   => /\ FieldErrorsOf(i, MsgRequired, TagLabelNames) # {}
                      /\ Untouched(i)

\* a vector field with a labelNames tag of two spaces was refused
C5_Witness ==
    /\ Populated
    /\ \E i \in 1..NumFields :
           /\ IsVectorField(i)
           /\ TagLabelNames \in DOMAIN bundle.fields[i].Tag
           /\ bundle.fields[i].Tag[TagLabelNames] = <<Sp, Sp>>
           /\ FieldErrorsOf(i, MsgRequired, TagLabelNames) # {}

\* field i has no tag error besides those about its labelNames tag
OtherTagsFine(i) ==
    LET errs == newOpts(bundle.fields[i]).err
    IN  \A k \in 1..Len(errs) : errs[k].kind = "FieldError" /\ errs[k].tag = TagLabelNames

\* the vector metric of field i was created with the label names its tag
\* lists and assigned
CreatedVec(i) ==
    /\ Created(i)
    /\ bundle.values[i].vec
    /\ bundle.values[i].labels = DeclaredLabels(i)
    /\ \A k \in CallsFor(i) : calls[k].fn = "NewVec" /\ calls[k].labelNames = DeclaredLabels(i)

IsObserverField(i) ==
    /\ IsMetricField(i)
    /\ bundle.fields[i].Type \in {observerType, observerVecType}
    /\ TagGet(bundle.fields[i], TagType) \in {<<>>, TypeHistogram, TypeSummary}

\* C7: an observer field resolves to the kind its type tag names; without a
\* type tag (or with an empty one) it resolves to a summary iff a
\* summary-only tag is present, and to a histogram otherwise.  The options,
\* the factory call and the handle are of the resolved kind.
C7_ObserverKind ==
    Populated
        => \A i \in 1..NumFields :
               IsObserverField(i)
                   => /\ newObserverOpts(bundle.fields[i]).opts.kind
                             = ResolvedKind(bundle.fields[i])
                      /\ \A k \in CallsFor(i) :
                             calls[k].opts.kind = ResolvedKind(bundle.fields[i])
                      /\ bundle.values[i] # NilHandle
                             => bundle.values[i].kind = ResolvedKind(bundle.fields[i])

\* an observer without a type tag was created as a summary
C7_Witness ==
    /\ Populated
    /\ \E i \in 1..NumFields :
           /\ IsObserverField(i)
           /\ TagType \notin DOMAIN bundle.fields[i].Tag
           /\ TagBufCap \in DOMAIN bundle.fields[i].Tag
           /\ Created(i)
           /\ bundle.values[i].kind = "summary"

\* the tags that only the kind a field did not resolve to allows
AmbiguousTags(mf) ==
    IF ResolvedKind(mf) = "histogram"
    THEN {TagObjectives, TagMaxAge, TagAgeBuckets, TagBufCap}
    ELSE {TagBuckets}

\* C8: on an observer field, each present tag that is exclusive to the kind
\* not chosen produces one ambiguous error, and no metric is created for
\* the field.
C8_Ambiguous ==
    Populated
        => \A i \in 1..NumFields :
               IsObserverField(i)
                   => \A t \in AmbiguousTags(bundle.fields[i]) :
                          t \in DOMAIN bundle.fields[i].Tag
                              => /\ Cardinality(FieldErrorsOf(i, MsgAmbiguous, t)) = 1
                                 /\ Untouched(i)

\* an observer that a summary tag made a summary was refused for its
\* buckets tag
C8_Witness ==
    /\ Populated
    /\ \E i \in 1..NumFields :
           /\ IsObserverField(i)
           /\ TagType \notin DOMAIN bundle.fields[i].Tag
           /\ TagBuckets \in DOMAIN bundle.fields[i].Tag
           /\ ResolvedKind(bundle.fields[i]) = "summary"
           /\ Cardinality(FieldErrorsOf(i, MsgAmbiguous, TagBuckets)) = 1
           /\ Untouched(i)

\* field i is a generic observer whose type tag is non-empty and not one of
\* the two recognized literals
HasInvalidType(i) ==
    /\ IsMetricField(i)
    /\ bundle.fields[i].Type \in {observerType, observerVecType}
    /\ TagGet(bundle.fields[i], TagType) \notin {<<>>, TypeHistogram, TypeSummary}

\* C9: an observer field whose type tag is non-empty and neither
\* "histogram" nor "summary" yields a field error, no options and no factory
\* call, and the field is left nil.
C9_InvalidType ==
    Populated
        => \A i \in 1..NumFields :
               HasInvalidType(i)
                   => /\ \E k \in FieldErrorsOf(i, MsgInvalidType, "") :
                             ret.err[k].text = TagGet(bundle.fields[i], TagType)
                      /\ newOpts(bundle.fields[i]).opts = NilOpts
                      /\ Untouched(i)

\* an observer vector with an unrecognized type tag was refused
C9_Witness ==
    /\ Populated
    /\ \E i \in 1..NumFields :
           /\ HasInvalidType(i)
           /\ bundle.fields[i].Type = observerVecType
           /\ FieldErrorsOf(i, MsgInvalidType, "") # {}
           /\ Untouched(i)

\* the tags that are not allowed on a field of the given type
NotAllowedTags(type) ==
    CASE type \in {counterType, gaugeType} -> {TagType, TagLabelNames}
      [] type \in {counterVecType, gaugeVecType} -> {TagType}
      [] type = histogramType ->
            {TagType, TagLabelNames, TagObjectives, TagMaxAge, TagAgeBuckets, TagBufCap}
      [] type = histogramVecType ->
            {TagType, TagObjectives, TagMaxAge, TagAgeBuckets, TagBufCap}
      [] type = summaryType -> {TagType, TagLabelNames, TagBuckets}
      [] type = summaryVecType -> {TagType, TagBuckets}
      [] type = observerType -> {TagLabelNames}
      [] OTHER -> {}

\* C10: tag legality is enforced by presence: each tag that is not allowed
\* on a field's type and is present, even with an empty value, produces
\* exactly one not-allowed error, and an absent one produces none.
C10_NotAllowed ==
    Populated
        => \A i \in 1..NumFields :
               IsMetricField(i)
                   => \A t \in NotAllowedTags(bundle.fields[i].Type) :
                          Cardinality(FieldErrorsOf(i, MsgNotAllowed, t))
                              = (IF t \in DOMAIN bundle.fields[i].Tag THEN 1 ELSE 0)

\* a counter with a type tag that is present and empty was refused
C10_Witness ==
    /\ Populated
    /\ \E i \in 1..NumFields :
           /\ IsMetricField(i)
           /\ bundle.fields[i].Type = counterType
           /\ TagType \in DOMAIN bundle.fields[i].Tag
           /\ bundle.fields[i].Tag[TagType] = <<>>
           /\ Cardinality(FieldErrorsOf(i, MsgNotAllowed, TagType)) = 1
           /\ Untouched(i)

\* the tags that only a histogram or only a summary allows
ObserverOnlyTags == {TagBuckets, TagObjectives, TagMaxAge, TagAgeBuckets, TagBufCap}

\* field i is a counter or a gauge, scalar or vector
IsCounterOrGauge(i) ==
    /\ IsMetricField(i)
    /\ bundle.fields[i].Type \in {counterType, counterVecType, gaugeType, gaugeVecType}

\* C11: on a counter or gauge field, scalar or vector, every histogram-only
\* or summary-only tag that is present makes Populate return a not-allowed
\* error for the field, and the metric is not created.
C11_ObserverTagsRefused ==
    Populated
        => \A i \in 1..NumFields :
               IsCounterOrGauge(i)
                   => \A t \in ObserverOnlyTags :
                          t \in DOMAIN bundle.fields[i].Tag
                              => /\ Cardinality(FieldErrorsOf(i, MsgNotAllowed, t)) = 1
                                 /\ Untouched(i)

\* a counter vector with label names and an empty buckets tag was refused
C11_Witness ==
    /\ Populated
    /\ \E i \in 1..NumFields :
           /\ IsCounterOrGauge(i)
           /\ bundle.fields[i].Type = counterVecType
           /\ DOMAIN bundle.fields[i].Tag = {TagBuckets, TagLabelNames}
           /\ bundle.fields[i].Tag[TagBuckets] = <<>>
           /\ Cardinality(ErrorsFor(i)) = 1
           /\ Untouched(i)

\* field i is declared unexported, or embedded, or with the touchstone tag
\* of value "-"
IsSkippedField(i) ==
    \/ bundle.fields[i].PkgPath # <<>>
    \/ bundle.fields[i].Anonymous
    \/ /\ TagTouchstone \in DOMAIN bundle.fields[i].Tag
       /\ bundle.fields[i].Tag[TagTouchstone] = <<"-">>

\* Populate did nothing for field i: no error, no factory call, and the
\* value it had before the call
Skipped(i) ==
    /\ ErrorsFor(i) = {}
    /\ CallsFor(i) = {}
    /\ bundle.values[i] = ret.old[i]

\* C12: a field is skipped iff it is unexported, or embedded, or carries the
\* touchstone tag with exactly the value "-".  For a skipped field Populate
\* makes no factory call, reports no error whatever its other tags, and
\* leaves its value unchanged; any other field of a metric type is
\* processed: it gets a factory call or an error.
C12_Skip ==
    Populated
        => \A i \in 1..NumFields :
               /\ skip(bundle.fields[i]) = IsSkippedField(i)
               /\ IsSkippedField(i) => Skipped(i)
               /\ (~IsSkippedField(i) /\ bundle.fields[i].Type \in MetricTypes)
                      => (ErrorsFor(i) # {} \/ CallsFor(i) # {})

\* an ignored counter with a type tag, which a counter does not allow, was
\* skipped without error
C12_Witness ==
    /\ Populated
    /\ ret.err = NoError
    /\ \E i \in 1..NumFields :
           /\ bundle.fields[i].Type = counterType
           /\ DOMAIN bundle.fields[i].Tag = {TagTouchstone, TagType}
           /\ bundle.fields[i].Tag[TagTouchstone] = <<"-">>
           /\ Skipped(i)
           /\ bundle.values[i] = NilHandle

\* field i is exported and not embedded or ignored, and its type is none of
\* the ten metric types
IsPlainField(i) == ~IsSkippedField(i) /\ bundle.fields[i].Type \notin MetricTypes

\* C13: an exported, non-embedded field whose type is not one of the ten
\* metric types is silently skipped: no error whatever tags it carries, no
\* factory call, its value unchanged; a bundle made only of such fields
\* populates successfully.
C13_PlainFieldSkipped ==
    Populated
        => /\ \A i \in 1..NumFields : IsPlainField(i) => Skipped(i)
           /\ (\A i \in 1..NumFields : IsPlainField(i))
                  => (ret.err = NoError /\ ~ret.panicked /\ calls = <<>>)

\* a bundle of one int field with a type tag and a labelNames tag was
\* populated without error
C13_Witness ==
    /\ Populated
    /\ NumFields = 1
    /\ IsPlainField(1)
    /\ bundle.fields[1].Type = intType
    /\ DOMAIN bundle.fields[1].Tag = {TagType, TagLabelNames}
    /\ ret.err = NoError
    /\ Skipped(1)

\* the value of the name tag MetricName was called with; empty when absent
NameTagValue == IF TagName \in DOMAIN conv.tag THEN conv.tag[TagName] ELSE <<>>

\* v with the "*" at position k replaced by sc
StarReplaced(v, k, sc) == SubSeq(v, 1, k - 1) \o sc \o SubSeq(v, k + 1, Len(v))

\* the name tags and the metric names of the field RequestCount
RequestCountNames ==
    {<<<<>>,
       <<"r", "e", "q", "u", "e", "s", "t", "_", "c", "o", "u", "n", "t">>>>,
     <<<<"c", "u", "s", "t", "o", "m", "_", "n", "a", "m", "e">>,
       <<"c", "u", "s", "t", "o", "m", "_", "n", "a", "m", "e">>>>,
     <<<<"p", "r", "e", "f", "i", "x", "_", "*">>,
       <<"p", "r", "e", "f", "i", "x", "_", "r", "e", "q", "u", "e", "s", "t", "_", "c", "o", "u", "n", "t">>>>,
     <<<<"*", "_", "s", "u", "f", "f", "i", "x">>,
       <<"r", "e", "q", "u", "e", "s", "t", "_", "c", "o", "u", "n", "t", "_", "s", "u", "f", "f", "i", "x">>>>,
     <<<<"a", "_", "*", "_", "b">>,
       <<"a", "_", "r", "e", "q", "u", "e", "s", "t", "_", "c", "o", "u", "n", "t", "_", "b">>>>}

\* C14: the metric name of a field is the name tag with only its first "*"
\* replaced by the snake-cased field name when the tag has a wildcard, the
\* name tag verbatim when it is non-empty without a wildcard, and the
\* snake-cased field name when the tag is absent or empty; the field
\* RequestCount gets the five names of the example.
C14_MetricName ==
    conv.op = "MetricName"
        => /\ IF \E k \in 1..Len(NameTagValue) : NameTagValue[k] = Star
              THEN \E k \in 1..Len(NameTagValue) :
                       /\ NameTagValue[k] = Star
                       /\ \A j \in 1..(k - 1) : NameTagValue[j] # Star
                       /\ conv.out = StarReplaced(NameTagValue, k, toSnakeCase(conv.field))
              ELSE IF NameTagValue # <<>>
              THEN conv.out = NameTagValue
              ELSE conv.out = toSnakeCase(conv.field)
           /\ conv.field = <<"R", "e", "q", "u", "e", "s", "t", "C", "o", "u", "n", "t">>
                  => \A e \in RequestCountNames : NameTagValue = e[1] => conv.out = e[2]

\* a name tag with two wildcards: the second one is left in the name
C14_Witness ==
    /\ conv.op = "MetricName"
    /\ conv.field = <<"R", "e", "q", "u", "e", "s", "t", "C", "o", "u", "n", "t">>
    /\ NameTagValue = <<Star, snakeCaseSeparator, Star>>
    /\ conv.out = <<"r", "e", "q", "u", "e", "s", "t", "_", "c", "o", "u", "n", "t", "_", "*">>

\* C15: the output of toSnakeCase never begins with the separator, never
\* ends with it and never has two separators in a row, whatever underscores
\* the identifier has; the empty identifier gives the empty string.
C15_Separators ==
    conv.op = "toSnakeCase"
        => /\ conv.out # <<>>
                  => /\ conv.out[1] # snakeCaseSeparator
                     /\ conv.out[Len(conv.out)] # snakeCaseSeparator
           /\ \A k \in 1..(Len(conv.out) - 1) :
                  ~(conv.out[k] = snakeCaseSeparator /\ conv.out[k + 1] = snakeCaseSeparator)
           /\ conv.field = <<>> => conv.out = <<>>

\* an identifier with a leading, a trailing and a repeated underscore
C15_Witness ==
    /\ conv.op = "toSnakeCase"
    /\ Len(conv.field) > 2
    /\ conv.field[1] = snakeCaseSeparator
    /\ conv.field[Len(conv.field)] = snakeCaseSeparator
    /\ \E k \in 1..(Len(conv.field) - 1) :
           conv.field[k] = snakeCaseSeparator /\ conv.field[k + 1] = snakeCaseSeparator
    /\ conv.out # <<>>

\* an identifier of lowercase letters, digits and single underscores only
IsSnakeCase(x) ==
    /\ \A k \in 1..Len(x) : IsLower(x[k]) \/ x[k] \in Digits \/ x[k] = snakeCaseSeparator
    /\ \A k \in 1..(Len(x) - 1) :
           ~(x[k] = snakeCaseSeparator /\ x[k + 1] = snakeCaseSeparator)

\* C16: toSnakeCase is idempotent on snake-case input: for an identifier of
\* lowercase letters, digits and single underscores only, converting the
\* converted identifier again gives the converted identifier.
C16_Idempotent ==
    (conv.op = "toSnakeCase" /\ IsSnakeCase(conv.field)) => conv.again = conv.out

\* a snake-case identifier of two tokens, converted twice
C16_Witness ==
    /\ conv.op = "toSnakeCase"
    /\ IsSnakeCase(conv.field)
    /\ \E k \in 2..(Len(conv.field) - 1) : conv.field[k] = snakeCaseSeparator
    /\ \E k \in 2..(Len(conv.out) - 1) : conv.out[k] = snakeCaseSeparator
    /\ conv.again = conv.out

\* an identifier of letters only
IsLetters(x) == \A k \in 1..Len(x) : IsLower(x[k]) \/ IsUpper(x[k])

\* a token starts at position i of x: a capital after a lowercase letter, or
\* the last capital of a run of capitals that a lowercase letter follows
TokenStart(x, i) ==
    /\ i > 1
    /\ IsUpper(x[i])
    /\ \/ IsLower(x[i - 1])
       \/ IsUpper(x[i - 1]) /\ i < Len(x) /\ IsLower(x[i + 1])

RECURSIVE CaseSplit(_, _)
\* x from position i on, in lowercase, with a separator before each token start
CaseSplit(x, i) ==
    IF i > Len(x) THEN <<>>
    ELSE (IF TokenStart(x, i) THEN <<snakeCaseSeparator>> ELSE <<>>)
             \o <<ToLower(x[i])>> \o CaseSplit(x, i + 1)

\* the identifiers of the example and their snake case
CaseExamples ==
    {<<<<"R", "e", "q", "u", "e", "s", "t", "C", "o", "u", "n", "t">>,
       <<"r", "e", "q", "u", "e", "s", "t", "_", "c", "o", "u", "n", "t">>>>,
     <<<<"R", "e", "q", "u", "e", "s", "t", "U", "R", "I">>,
       <<"r", "e", "q", "u", "e", "s", "t", "_", "u", "r", "i">>>>,
     <<<<"S", "o", "m", "e", "t", "h", "i", "n", "g", "A", "B", "C", "D", "o", "i", "t">>,
       <<"s", "o", "m", "e", "t", "h", "i", "n", "g", "_", "a", "b", "c", "_", "d", "o", "i", "t">>>>,
     <<<<"I", "N", "I", "T", "I", "A", "L", "C", "A", "P", "S">>,
       <<"i", "n", "i", "t", "i", "a", "l", "c", "a", "p", "s">>>>}

\* C17: for an identifier of letters, toSnakeCase splits tokens by case: a
\* capital after a lowercase letter starts a token, a run of two or more
\* capitals followed by a lowercase letter is one token except for its last
\* letter, which starts the next token, and a run of capitals that no
\* lowercase letter follows stays one token; RequestCount, RequestURI,
\* SomethingABCDoit and INITIALCAPS give the outputs of the example.
C17_CaseSplit ==
    conv.op = "toSnakeCase"
        => /\ IsLetters(conv.field) => conv.out = CaseSplit(conv.field, 1)
           /\ \A e \in CaseExamples : conv.field = e[1] => conv.out = e[2]

\* a run of capitals followed by a lowercase letter, after a lowercase token
C17_Witness ==
    /\ conv.op = "toSnakeCase"
    /\ conv.field = <<"S", "o", "m", "e", "t", "h", "i", "n", "g", "A", "B", "C", "D", "o", "i", "t">>
    /\ conv.out = <<"s", "o", "m", "e", "t", "h", "i", "n", "g", "_", "a", "b", "c", "_", "d", "o", "i", "t">>

\* the number of characters of s[1..i] that are not separators
Letters(s, i) == Cardinality({k \in 1..i : s[k] # snakeCaseSeparator})

\* the position in out of the m-th character that is not a separator
NthLetter(out, m) ==
    CHOOSE j \in 1..Len(out) : out[j] # snakeCaseSeparator /\ Letters(out, j) = m

\* neither a letter nor the separator
IsOther(c) == ~IsLower(c) /\ ~IsUpper(c) /\ c # snakeCaseSeparator

\* C18: a digit or other non-letter, non-separator character is emitted in
\* the same output token as the character immediately before it: toSnakeCase
\* puts no separator between such a character and its predecessor.
C18_DigitsAttach ==
    conv.op = "toSnakeCase"
        => \A i \in 2..Len(conv.field) :
               (IsOther(conv.field[i]) /\ conv.field[i - 1] # snakeCaseSeparator)
                   => LET j == NthLetter(conv.out, Letters(conv.field, i))
                      IN  /\ conv.out[j] = conv.field[i]
                          /\ conv.out[j - 1] # snakeCaseSeparator

\* the messages of the errors the parsing functions return
ParseFailures == {"ParseFloat", "ParseUint", "ParseDuration"}

\* C19: every error Populate reports for a field's own tags or type is a
\* field error carrying that field's name and static type and a message,
\* and when it stems from a parse failure the parse error is kept as the
\* wrapped cause.
C19_FieldErrors ==
    Populated
        => \A i \in 1..NumFields :
               (IsMetricField(i) /\ newOpts(bundle.fields[i]).err # NoError)
                   => \A k \in ErrorsFor(i) :
                          /\ ret.err[k].kind = "FieldError"
                          /\ ret.err[k].field = bundle.fields[i].Name
                          /\ ret.err[k].ftype = bundle.fields[i].Type
                          /\ ret.err[k].msg # ""
                          /\ ret.err[k].msg \in ParseFailures
                                 => ret.err[k].cause = "ParseError"

\* C20: when the factory returns an error for a field, Populate adds that
\* same error, unchanged, to the error it returns, assigns nothing into the
\* field and goes on to the next field; a field is assigned only when its
\* factory call succeeded.
C20_FactoryError ==
    (Populated /\ ~ret.panicked)
        => /\ \A k \in 1..Len(calls) :
                  calls[k].failed
                      => /\ Cardinality(ErrorsFor(calls[k].i)) = 1
                         /\ \A j \in ErrorsFor(calls[k].i) : <<ret.err[j]>> = calls[k].err
                         /\ bundle.values[calls[k].i] = ret.old[calls[k].i]
                         /\ \A n \in (calls[k].i + 1)..NumFields :
                                IsMetricField(n) => CallsFor(n) # {} \/ ErrorsFor(n) # {}
           /\ \A i \in 1..NumFields :
                  bundle.values[i] # ret.old[i]
                      => \E k \in CallsFor(i) : ~calls[k].failed

\* the factory refused a field, which stays nil, and a field declared after
\* it was created
C20_Witness ==
    /\ Populated
    /\ ~ret.panicked
    /\ \E k \in 1..Len(calls), n \in 1..NumFields :
           /\ calls[k].failed
           /\ calls[k].i < n
           /\ Created(n)
           /\ bundle.values[calls[k].i] = NilHandle
           /\ \E j \in ErrorsFor(calls[k].i) : ret.err[j].kind = "RegisterError"

\* the constructor of Provide has returned
Constructed == app.instances > 0 /\ ~ret.panicked

\* C21: on every invocation the constructor of Provide allocates a fresh
\* zero-valued instance of the prototype's struct type, populates it with
\* the factory and returns it by value for a struct prototype and as a
\* non-nil pointer for a pointer prototype (a nil pointer included); the
\* prototype is not modified and its field values are not copied.
C21_ProvideFresh ==
    Constructed
        => /\ app.component.kind = app.given.kind
           /\ ~app.component.isNil
           /\ app.component.id = app.instances
           /\ app.component.id # 0
           /\ app.prototype = app.given
           /\ app.component.values = bundle.values
           /\ \A i \in 1..NumFields :
                  /\ app.component.values[i] # OldHandle
                  /\ ValidField(i) => Created(i)
                  /\ ~ValidField(i) => app.component.values[i] = NilHandle

\* a nil pointer prototype: the constructor returned a pointer to a new
\* struct with a created metric
C21_Witness ==
    /\ Constructed
    /\ app.given.kind = "ptr"
    /\ app.given.isNil
    /\ app.component.kind = "ptr"
    /\ ~app.component.isNil
    /\ \E i \in 1..NumFields : Created(i) /\ app.component.values[i] # NilHandle

\* the prototype handed to Provide is a struct or a pointer to a struct
IsStructPrototype ==
    \/ app.given.kind = "struct"
    \/ app.given.kind = "ptr" /\ app.given.elemKind = "struct"

\* C22: for every prototype that is neither a struct nor a pointer to a
\* struct (an integer, a pointer to a non-struct, the nil interface) Provide
\* returns an option that carries an error; it never panics and never
\* returns a constructor that fails later.
C22_InvalidPrototype ==
    (app.option # "none" /\ ~IsStructPrototype) => app.option = "error"

\* C23: when the bundle built by the constructor of Provide has any field
\* error, the constructor returns a non-nil error, the application fails
\* and the target is not filled: a value target keeps nil fields, a pointer
\* target stays nil.
C23_ProvideError ==
    (Constructed /\ \E i \in 1..NumFields : FailingField(i))
        => /\ ret.err # NoError
           /\ app.failed
           /\ app.target = ZeroTarget(app.given)
           /\ app.given.kind = "struct"
                  => \A i \in 1..NumFields : app.target.values[i] = NilHandle
           /\ app.given.kind = "ptr" => app.target.isNil

\* a struct with a failing field and a valid one: the constructor made the
\* valid field's metric and the target still has nil fields
C23_Witness ==
    /\ Constructed
    /\ app.given.kind = "struct"
    /\ app.failed
    /\ \E i, j \in 1..NumFields :
           /\ FailingField(i)
           /\ Created(j)
           /\ app.component.values[j] # NilHandle
           /\ app.target.values[j] = NilHandle

\* C24: for every metric kind, a constructor of the factory called with
\* options without a name returns ErrNoMetricName and a nil metric, and
\* registers nothing: the registry is as it was before the call.
C24_NoName ==
    (made.n > 0 /\ made.opts.Name = <<>>)
        => /\ made.err = <<ErrNoMetricName>>
           /\ made.m = NilHandle
           /\ registry = made.before

\* a Vec constructor called without a name after a metric was registered
C24_Witness ==
    /\ made.n > 0
    /\ made.opts.Name = <<>>
    /\ made.opts.Namespace # <<>>
    /\ made.labels # <<>>
    /\ made.err = <<ErrNoMetricName>>
    /\ registry # {}

\* the namespace and subsystem the last constructor call registers under:
\* those of the options when non-empty, the factory's defaults otherwise
NewNamespace ==
    IF made.opts.Namespace # <<>> THEN made.opts.Namespace ELSE factory.defaults.Namespace

NewSubsystem ==
    IF made.opts.Subsystem # <<>> THEN made.opts.Subsystem ELSE factory.defaults.Subsystem

\* the last constructor call was made on a fresh registry for the name
\* "test" with the given namespace and subsystem in its options
FirstTest(ns, ss) ==
    /\ made.n > 0
    /\ made.before = {}
    /\ made.opts.Name = <<"t", "e", "s", "t">>
    /\ made.opts.Namespace = ns
    /\ made.opts.Subsystem = ss

\* C25: a successful constructor call registers the metric under the
\* fully-qualified name built from the options' namespace and subsystem
\* when they are non-empty and from the factory's defaults otherwise.  On a
\* fresh registry: without defaults "test" is registered as "test"; with
\* the defaults n and s as "n_s_test", and "test" is absent; with o1 and o2
\* in the options as "o1_o2_test", and "test" and "n_s_test" are absent.
C25_FQName ==
    /\ (made.n > 0 /\ made.err = NoError)
           => /\ made.m.fq = BuildFQName(NewNamespace, NewSubsystem, made.opts.Name)
              /\ made.m.fq \notin made.before
              /\ registry = made.before \cup {made.m.fq}
    /\ (FirstTest(<<>>, <<>>) /\ factory.defaults.Namespace = <<>>)
           => <<"t", "e", "s", "t">> \in registry
    /\ (FirstTest(<<>>, <<>>) /\ factory.defaults.Namespace = <<"n">>)
           => /\ <<"n", "_", "s", "_", "t", "e", "s", "t">> \in registry
              /\ <<"t", "e", "s", "t">> \notin registry
    /\ (FirstTest(<<"o", "1">>, <<"o", "2">>) /\ factory.defaults.Namespace = <<"n">>)
           => /\ <<"o", "1", "_", "o", "2", "_", "t", "e", "s", "t">> \in registry
              /\ <<"t", "e", "s", "t">> \notin registry
              /\ <<"n", "_", "s", "_", "t", "e", "s", "t">> \notin registry

\* a factory with defaults, called with a namespace of its own and no
\* subsystem: the metric is registered as "o1_s_test"
C25_Witness ==
    /\ made.n > 0
    /\ made.err = NoError
    /\ factory.defaults.Subsystem = <<"s">>
    /\ made.opts.Namespace = <<"o", "1">>
    /\ made.opts.Subsystem = <<>>
    /\ <<"o", "1", "_", "s", "_", "t", "e", "s", "t">> \in registry

\* the errors the last Populate returned for field i that come from the
\* field's tags: field errors and parse errors
TagErrors(i) == {k \in ErrorsFor(i) : ret.err[k].kind \in {"FieldError", "ParseError"}}

\* C26: the factory is called for a field only if resolving its options
\* produced options and no error at all.  A field with any tag error, even
\* one whose options could still be built, gets no factory call: nothing is
\* registered for it and the field is left unchanged.
C26_NoCallOnTagError ==
    Populated
        => /\ \A i \in 1..NumFields :
                  (IsMetricField(i) /\ TagErrors(i) # {})
                      => /\ CallsFor(i) = {}
                         /\ bundle.values[i] = ret.old[i]
                         /\ NumFields = 1 => registry = ret.before
           /\ \A k \in 1..Len(calls) :
                  /\ newOpts(bundle.fields[calls[k].i]).err = NoError
                  /\ newOpts(bundle.fields[calls[k].i]).opts # NilOpts
                  /\ TagErrors(calls[k].i) = {}

\* a gauge with a help tag and a disallowed bufCap tag that parses: its
\* options could be built, and the factory was not called
C26_Witness ==
    /\ Populated
    /\ NumFields = 1
    /\ bundle.fields[1].Type = gaugeType
    /\ DOMAIN bundle.fields[1].Tag = {TagHelp, TagBufCap}
    /\ bundle.fields[1].Tag[TagBufCap] = <<"5">>
    /\ newOpts(bundle.fields[1]).opts # NilOpts
    /\ Cardinality(TagErrors(1)) = 1
    /\ calls = <<>>
    /\ registry = {}

\* an entry of the objectives tag is well formed: exactly two parts around
\* a colon, both of them floating-point numbers
WellFormedEntry(e) ==
    /\ Len(Split(e, Colon)) = 2
    /\ ParseFloatOk(TrimSpace(Split(e, Colon)[1]))
    /\ ParseFloatOk(TrimSpace(Split(e, Colon)[2]))

\* the entries of field i's objectives tag
ObjectiveEntries(i) == Split(bundle.fields[i].Tag[TagObjectives], Comma)

\* the errors the last Populate returned for field i about its objectives
ObjectiveErrors(i) ==
    {k \in ErrorsFor(i) : ret.err[k].msg \in {"Invalid objective entry '%s'", "ParseFloat"}}

SameName(i, j) ==
    /\ i < j
    /\ ValidField(i)
    /\ WellFormed(j)
    /\ FieldFQName(i) = FieldFQName(j)

\* C28: fields are processed, and their factory calls and errors ordered,
\* in declaration order.  When two valid fields of a bundle resolve to the
\* same fully-qualified name, the earlier field is registered and assigned,
\* the later one gets the factory's duplicate-registration error and stays
\* nil, and that is the only error Populate returns.
C28_DeclarationOrder ==
    (Populated /\ ~ret.panicked)
        => /\ \A k, l \in 1..Len(calls) : k < l => calls[k].i < calls[l].i
           /\ \A k, l \in 1..Len(ret.origin) : k < l => ret.origin[k] <= ret.origin[l]
           /\ \A i, j \in 1..NumFields :
                  SameName(i, j)
                      => /\ Created(i)
                         /\ bundle.values[j] = ret.old[j]
                         /\ \A k \in 1..Len(ret.old) : ret.old[k] = NilHandle
                                => bundle.values[j] = NilHandle
                         /\ Cardinality(ErrorsFor(j)) = 1
                         /\ \A k \in ErrorsFor(j) :
                                ret.err[k] = RegisterError("already registered", FieldFQName(j))
                         /\ NumFailing = 1 => Len(ret.err) = 1

\* two valid fields with one name on a fresh registry: the first is
\* created, the second is nil and has the only error
C28_Witness ==
    /\ Populated
    /\ NumFields = 2
    /\ ret.before = {}
    /\ SameName(1, 2)
    /\ Created(1)
    /\ bundle.values[2] = NilHandle
    /\ Len(ret.err) = 1
    /\ ret.origin = <<2>>
    /\ ret.err[1].kind = "RegisterError"

\* the factory calls of the last Populate that succeeded
Succeeded == {k \in 1..Len(calls) : ~calls[k].failed}

Executing == {r \in Requests : http.pc[r] \in {"next", "end"}}

\* the requests whose end has incremented the request counter
Counted == {r \in Requests : http.pc[r] \in {"duration", "requestSize", "errorCount", "done"}}

\* the request counter summed over its labels
CountTotal == http.count["200"] + http.count["500"] + http.count["-1"]

\* C30: for every interleaving of concurrent requests through one server
\* or client instrumenter, the in-flight gauge equals the number of requests
\* that have begun and not yet ended.  It is incremented before the wrapped
\* handler or client runs and decremented when it returns, so while a
\* request executes only the gauge has changed for it, and once every
\* request has finished the gauge is back at its initial value and the
\* request counter has been incremented exactly once per request.
C30_InFlight ==
    /\ http.inFlight = Cardinality(Executing)
    /\ CountTotal = Cardinality(Counted)
    /\ \A c \in CodeLabels :
           http.count[c] = Cardinality({r \in Counted : formatCode(http.code[r]) = c})
    /\ (\A r \in Requests : http.pc[r] \in {"new", "next"})
           => /\ CountTotal = 0
              /\ http.duration = 0
              /\ http.requestSize = 0
              /\ http.errorCount = 0
    /\ (\A r \in Requests : http.pc[r] = "done")
           => /\ http.inFlight = 0
              /\ CountTotal = MaxRequests
              /\ http.duration = MaxRequests
              /\ http.requestSize = MaxRequests

\* two requests are executing in the wrapped handler while another has
\* finished: the gauge is at two and the counter at one
C30_Witness ==
    /\ http.kind = "server"
    /\ \E r, s, t \in Requests :
           /\ r # s
           /\ http.pc[r] = "next"
           /\ http.pc[s] = "next"
           /\ http.pc[t] = "done"
    /\ http.inFlight = 2
    /\ CountTotal = 1

====
